---------------------------- MODULE Spec2Model ----------------------------
(***************************************************************************)
(* Verification model of the PhaseWall PoC benchmarking harness            *)
(* (src/phasewall-poc-app/phasewall_poc): scenario runner, simulation      *)
(* engines, aggregation and reporting.                                     *)
(*                                                                         *)
(* Real numbers are fixed-point integers with FP units per 1.0; every      *)
(* arithmetic operation rounds its result to the nearest unit, the way     *)
(* every float64 operation of the code rounds to the nearest double.       *)
(* Literal coefficients of the code (0.28, 0.8, 0.25, ...) are exact       *)
(* rationals num/den.                                                      *)
(***************************************************************************)
EXTENDS Integers, Sequences, FiniteSets, TLC

\* ------------------------------------------------------------------------
\* State
\* ------------------------------------------------------------------------

VARIABLES
    cfg,      \* the ScenarioConfig both calls are given
    fn,       \* the runner function called: "walker" or "optimizer"
    pc,       \* position in the call
    call,     \* number of calls completed
    rets,     \* what each completed call returned or raised
    out,      \* the list under construction in the current call
    si,       \* index of the current seed in cfg.seeds
    mi,       \* index of the current method in METHODS
    rng,      \* state of the generator last created with default_rng
    draws,    \* random numbers drawn since the current call began
    sims,     \* <<seed, method>> of every simulation begun in the current call
    frame,    \* locals of the simulation in progress
    results,  \* the RunResult list given to aggregate_results and write_bundle
    aggs,     \* the AggregateResult list aggregate_results returned
    files,    \* the artifacts written to the output directory, in order
    apc,      \* position in aggregate_results / write_bundle
    aerr,     \* the exception that ended write_bundle, "" if none
    bench,    \* arguments and locals of the run_benchmark invocation
    disk,     \* the clock and the file system: directories and files
    probe     \* arguments and result of a library function applied alone

runVars == <<cfg, fn, pc, call, rets, out, si, mi, rng, draws, sims, frame>>

aggVars == <<results, aggs, files, apc, aerr>>

envVars == <<bench, disk, probe>>

vars == <<runVars, aggVars, envVars>>

NoFrame == [kind |-> "none"]

\* no exception
NoError == [type |-> "", msg |-> << >>]

\* no run_benchmark invocation: write_bundle is given the directory "out"
NoBench ==
    [pc |-> "off", inv |-> 0, preset |-> "core", seed_count |-> 0,
     out_dir |-> <<"out">>, scenarios |-> << >>, idx |-> 1,
     all_results |-> << >>, resolved |-> <<"out">>, error |-> NoError,
     disk0 |-> [now |-> 0, dirs |-> {}, files |-> {}], log |-> << >>]

\* a file system holding the directory "out" and no file
NoDisk == [now |-> 0, dirs |-> {<<"out">>}, files |-> {}]

NoProbe == [pc |-> "off"]

\* ------------------------------------------------------------------------
\* Fixed-point arithmetic (the model of float64)
\* ------------------------------------------------------------------------

\* units per 1.0
FP == 100

Abs(a) == IF a < 0 THEN -a ELSE a

Min2(a, b) == IF b < a THEN b ELSE a

Max2(a, b) == IF b > a THEN b ELSE a

\* np.clip(x, lo, hi)
Clip(x, lo, hi) == IF x < lo THEN lo ELSE IF x > hi THEN hi ELSE x

\* a / b rounded to the nearest integer, ties away from zero (b > 0)
RoundDiv(a, b) ==
    IF a >= 0 THEN (2 * a + b) \div (2 * b)
    ELSE -((2 * (-a) + b) \div (2 * b))

\* product of two fixed-point numbers
MulFP(a, b) == RoundDiv(a * b, FP)

\* quotient of two fixed-point numbers (b > 0)
DivFP(a, b) == RoundDiv(a * FP, b)

RECURSIVE SqrtSearch(_, _, _)
SqrtSearch(n, lo, hi) ==
    \* largest r in lo..hi with r*r <= n
    IF lo >= hi THEN lo
    ELSE LET mid == (lo + hi + 1) \div 2
         IN IF mid * mid <= n THEN SqrtSearch(n, mid, hi)
            ELSE SqrtSearch(n, lo, mid - 1)

\* sqrt(n) rounded to the nearest integer (n >= 0)
ISqrt(n) ==
    LET r == SqrtSearch(n, 0, 46340)
    IN IF n - r * r > r THEN r + 1 ELSE r

\* a sequence given as a function, evaluated once into a tuple
Vec(s) == s \o << >>

\* a list of rows, each evaluated once
Mat(m) == [i \in 1..Len(m) |-> m[i] \o << >>] \o << >>

RECURSIVE SumTuple(_)
SumTuple(s) == IF s = << >> THEN 0 ELSE Head(s) + SumTuple(Tail(s))

\* the sum of a sequence of numbers
SumSeq(s) == SumTuple(Vec(s))

\* np.linalg.norm of one row: sqrt of the sum of squares, in fixed-point units
Norm(v) == ISqrt(SumSeq(Vec([i \in 1..Len(v) |-> v[i] * v[i]])))


\* ------------------------------------------------------------------------
\* Pseudo-random generator: np.random.default_rng(seed) and its draws.
\* A generator is a state; every draw moves it on by one step, and the
\* stream is a function of the seed alone.
\* ------------------------------------------------------------------------

RngModulus == 65537

\* (mutant) the generator created earlier is carried on instead of a new one
default_rng_shared(seed) == rng

\* (mutant) the generator is seeded with the seed plus its position in the
\* seed list
default_rng_positional(seed) == ((seed + si + 1) * 7919) % RngModulus

\* a generator seeded with an integer, ignoring whatever was drawn before
default_rng(seed) == ((seed + 1) * 7919) % RngModulus

rng_next(s) == (75 * s + 74) % RngModulus

\* standard-normal values a draw can yield, in fixed-point units
NormalTable == <<-200, -110, -60, -20, 20, 60, 110, 200>>

std_normal(s) == NormalTable[(s % 8) + 1]

RECURSIVE RngAdvance(_, _)
\* the generator after k draws
RngAdvance(s, k) == IF k = 0 THEN s ELSE RngAdvance(rng_next(s), k - 1)

RECURSIVE StdNormals(_, _)
\* the next k standard-normal draws of generator s
StdNormals(s, k) ==
    IF k = 0 THEN << >>
    ELSE <<std_normal(rng_next(s))>> \o StdNormals(rng_next(s), k - 1)

\* rng.normal(loc, scale, size=k)
rng_normal(s, loc, scale, k) ==
    LET z == StdNormals(s, k)
    IN Vec([i \in 1..k |-> loc + MulFP(scale, z[i])])

\* rng.uniform(lo, hi, size=k)
rng_uniform(s, lo, hi, k) ==
    Vec([i \in 1..k |-> lo + RoundDiv((hi - lo) * (RngAdvance(s, i) % 8), 8)])

\* a flat sequence of n*d draws as n rows of d
Rows(flat, n, d) == Mat([i \in 1..n |-> [j \in 1..d |-> flat[(i - 1) * d + j]]])

\* ------------------------------------------------------------------------
\* geometry.py
\* ------------------------------------------------------------------------

\* exp(-k/8) for k = 0, 1, 2, ... in fixed-point units
ExpTable ==
    <<100, 88, 78, 69, 61, 54, 47, 42, 37, 32, 29, 25, 22, 20, 17, 15, 14,
      12, 11, 9, 8, 7, 6, 6, 5, 4, 4, 3, 3, 3, 2, 2, 2, 2, 1, 1, 1, 1, 1,
      1, 1, 1, 1>>

\* exp(-num/den) for num >= 0, den > 0
ExpNeg(num, den) ==
    LET k == RoundDiv(8 * num, den)
    IN IF k + 1 > Len(ExpTable) THEN 0 ELSE ExpTable[k + 1]

\* gaussian_gradient for one row (the code requires at least 2 columns)
gaussian_gradient(p, sigma) ==
    LET r2   == p[1] * p[1] + p[2] * p[2]
        s2   == sigma * sigma
        base == ExpNeg(r2, 2 * s2)
    IN Vec([j \in 1..Len(p) |->
              IF j <= 2 THEN -MulFP(RoundDiv(p[j] * FP * FP, s2), base) ELSE 0])

\* ------------------------------------------------------------------------
\* phasewall.py
\* ------------------------------------------------------------------------

\* apply_phase_wall_z for one row
\* (mutant) apply_phase_wall_z without the clip of strength to [0, 1]
apply_phase_wall_z_unclamped(z, r0, strength) ==
    LET n == Norm(z)
    IN IF n > r0
       THEN LET scale == Clip(FP - MulFP(strength, FP - DivFP(r0, n)), 0, FP)
            IN Vec([j \in 1..Len(z) |-> MulFP(z[j], scale)])
       ELSE z

apply_phase_wall_z(z, r0, strength) ==
    LET s == Clip(strength, 0, FP)
        n == Norm(z)
    IN IF n > r0
       THEN LET scale == Clip(FP - MulFP(s, FP - DivFP(r0, n)), 0, FP)
            IN Vec([j \in 1..Len(z) |-> MulFP(z[j], scale)])
       ELSE z

\* decompose_radial_tangential for one row: <<radial, tangential>>
decompose_radial_tangential(v, p) ==
    LET n    == Norm(p)
        safe == IF n > 0 THEN n ELSE FP
        hat  == Vec([j \in 1..Len(p) |-> DivFP(p[j], safe)])
        mag  == RoundDiv(SumSeq([j \in 1..Len(p) |-> v[j] * hat[j]]), FP)
        rad  == Vec([j \in 1..Len(p) |-> MulFP(mag, hat[j])])
    IN <<rad, Vec([j \in 1..Len(p) |-> v[j] - rad[j]])>>

\* (mutant) phase_aware_noise for one row with the boundary r = r0 treated as
\* outside
phase_aware_noise_boundary_outside(p, noise, r0, strength) ==
    IF Norm(p) >= r0
    THEN LET s   == Clip(strength, 0, FP)
             rt  == decompose_radial_tangential(noise, p)
             sb  == RoundDiv(s * 25, 100)
             td  == FP - RoundDiv(s * 80, 100)
         IN Vec([j \in 1..Len(p) |->
                   rt[1][j] + MulFP(sb, -rt[1][j]) + MulFP(td, rt[2][j])])
    ELSE noise

\* phase_aware_noise for one row, with the code's default
\* tangential_damping = 0.8 and radial_boost = 0.25
phase_aware_noise(p, noise, r0, strength) ==
    IF Norm(p) > r0
    THEN LET s   == Clip(strength, 0, FP)
             rt  == decompose_radial_tangential(noise, p)
             sb  == RoundDiv(s * 25, 100)
             td  == FP - RoundDiv(s * 80, 100)
         IN Vec([j \in 1..Len(p) |->
                   rt[1][j] + MulFP(sb, -rt[1][j]) + MulFP(td, rt[2][j])])
    ELSE noise

\* ------------------------------------------------------------------------
\* config.py: ScenarioConfig and the configurations explored
\* ------------------------------------------------------------------------

OBJECTIVES == {"sphere", "rosenbrock", "rastrigin"}

ENGINES == {"walker", "toy_es", "cmaes_style"}

\* (mutant) the methods in the other order
METHODS_swapped == <<"phasewall", "vanilla">>

\* the two methods every seed is run with, in the code's order
METHODS == <<"vanilla", "phasewall">>

\* longest seed list explored
MaxSeeds == 2

\* largest walker step count explored
MaxSteps == 3

\* largest optimizer evaluation budget explored
MaxEvals == 4

SeedValues == {1, 2}

SeedLists == UNION {[1..n -> SeedValues] : n \in 0..MaxSeeds}

ScenarioConfig(name, dim, noise_std, steps_or_evals, seeds, strength, engine, objective, population_size, n_agents, sigma) ==
    [name |-> name, dim |-> dim, noise_std |-> noise_std,
     steps_or_evals |-> steps_or_evals, seeds |-> seeds,
     phasewall_strength |-> strength, engine |-> engine,
     objective |-> objective, population_size |-> population_size,
     n_agents |-> n_agents, sigma |-> sigma]

\* configurations of the walker engine; the objective may be a name that is
\* not one of OBJECTIVES
WalkerConfigs ==
    {ScenarioConfig("sc", 2, ns, st, sd, 40, "walker", ob, 24, na, sg) :
        ns \in {0, 25}, st \in 1..MaxSteps, sd \in SeedLists,
        ob \in {"sphere", "bogus"}, na \in {1, 2}, sg \in {10, 100}}

\* configurations whose engine is not one of ENGINES
UnknownEngineConfigs ==
    {ScenarioConfig("sc", 2, 25, 1, sd, 40, "bogus", "sphere", 2, 1, 100) :
        sd \in SeedLists}

\* ------------------------------------------------------------------------
\* sim_walkers.py
\* ------------------------------------------------------------------------

\* _init_positions: random unit directions times radii uniform in [1.1, 2.5]
_init_positions(n_agents, dim, g) ==
    LET vec   == Rows(StdNormals(g, n_agents * dim), n_agents, dim)
        g2    == RngAdvance(g, n_agents * dim)
        radii == rng_uniform(g2, 110, 250, n_agents)
    IN Mat([i \in 1..n_agents |->
              LET nrm == Norm(vec[i])
                  u   == Vec([j \in 1..dim |->
                                DivFP(vec[i][j], IF nrm > 0 THEN nrm ELSE 1)])
              IN [j \in 1..dim |-> MulFP(u[j], radii[i])]])

\* the positions after one iteration of _simulate's loop
\* positions + step for one agent, before the clamp: step = 0.28 * grad +
\* noise, the noise reshaped by phase_aware_noise when phasewall is enabled
WalkerProposal(p, noise, phasewall_enabled, strength, sigma) ==
    LET grad == gaussian_gradient(p, sigma)
        nz   == IF phasewall_enabled
                THEN phase_aware_noise(p, noise, sigma, strength)
                ELSE noise
    IN Vec([j \in 1..Len(p) |-> p[j] + (RoundDiv(28 * grad[j], 100) + nz[j])])

WalkerMove(positions, noise, phasewall_enabled, strength, sigma) ==
    Mat([i \in 1..Len(positions) |->
        LET q == WalkerProposal(positions[i], noise[i], phasewall_enabled,
                                strength, sigma)
        IN IF phasewall_enabled THEN apply_phase_wall_z(q, sigma, FP) ELSE q])

\* np.sum of a boolean array
CountTrue(flags) == Cardinality({i \in 1..Len(flags) : flags[i]})

\* RunResult(scenario, engine, method, seed, score, metrics)
RunResult(method, seed, score, metrics) ==
    [scenario |-> cfg.name, engine |-> cfg.engine, method |-> method,
     seed |-> seed, score |-> score, metrics |-> metrics]

\* out = [] at the top of run_walker_scenario / run_optimizer_scenario
NewOut == << >>

\* the inner "for method" and outer "for seed" loops move on
NextIteration ==
    /\ mi' = IF mi < Len(METHODS) THEN mi + 1 ELSE 1
    /\ si' = IF mi < Len(METHODS) THEN si ELSE si + 1

\* the call ends by raising: nothing is returned
Raise(kind) ==
    /\ rets' = Append(rets, [raised |-> TRUE, error |-> kind, value |-> << >>,
                             draws |-> draws', sims |-> sims])
    /\ call' = call + 1
    /\ pc' = "idle"
    /\ frame' = NoFrame

\* run_walker_scenario is called: the engine check, then out = []
CallWalker ==
    /\ pc = "idle" /\ call < 2 /\ fn = "walker"
    /\ draws' = 0 /\ sims' = << >>
    /\ IF cfg.engine # "walker"
       THEN /\ Raise("ValueError")
            /\ UNCHANGED <<out, si, mi>>
       ELSE /\ out' = NewOut
            /\ si' = 1 /\ mi' = 1
            /\ pc' = "loop"
            /\ UNCHANGED <<rets, call, frame>>
    /\ UNCHANGED <<aggVars, envVars, cfg, fn, rng>>

\* _simulate begins for (seed, method): the generator and the positions
BeginWalkerRun ==
    /\ pc = "loop" /\ fn = "walker" /\ si <= Len(cfg.seeds)
    /\ LET g == default_rng(cfg.seeds[si])
           n == cfg.n_agents
           pos == _init_positions(n, cfg.dim, g)
       IN /\ rng' = RngAdvance(g, n * cfg.dim + n)
          /\ draws' = draws + n * cfg.dim + n
          /\ frame' = [kind |-> "walker",
                       phasewall_enabled |-> (METHODS[mi] = "phasewall"),
                       positions |-> pos, t |-> 0,
                       escapes |-> 0, inside_count |-> 0]
    /\ sims' = Append(sims, <<cfg.seeds[si], METHODS[mi]>>)
    /\ pc' = "sim"
    /\ UNCHANGED <<aggVars, envVars, cfg, fn, call, rets, out, si, mi>>

\* (mutant) one iteration of the loop counting every agent that ends the
\* step outside as an escape
WalkerStep_any_outside ==
    /\ pc = "sim" /\ frame.kind = "walker" /\ frame.t < cfg.steps_or_evals
    /\ LET n     == cfg.n_agents
           prev  == frame.positions
           noise == Rows(rng_normal(rng, 0, cfg.noise_std, n * cfg.dim), n, cfg.dim)
           pos   == WalkerMove(prev, noise, frame.phasewall_enabled,
                               cfg.phasewall_strength, cfg.sigma)
           Inside(i)  == Norm(prev[i]) <= cfg.sigma
           Escaped(i) == Norm(pos[i]) > cfg.sigma
       IN /\ rng' = RngAdvance(rng, n * cfg.dim)
          /\ draws' = draws + n * cfg.dim
          /\ frame' = [frame EXCEPT
                         !.positions = pos,
                         !.t = @ + 1,
                         !.escapes = @ + CountTrue([i \in 1..n |-> Escaped(i)]),
                         !.inside_count = @ + CountTrue([i \in 1..n |-> Inside(i)])]
    /\ UNCHANGED <<aggVars, envVars, cfg, fn, pc, call, rets, out, si, mi, sims>>

\* (mutant) one iteration of the loop in which the noise reshaping draws a
\* random number of its own
WalkerStep_reshaping_draws ==
    /\ pc = "sim" /\ frame.kind = "walker" /\ frame.t < cfg.steps_or_evals
    /\ LET n     == cfg.n_agents
           prev  == frame.positions
           noise == Rows(rng_normal(rng, 0, cfg.noise_std, n * cfg.dim), n, cfg.dim)
           pos   == WalkerMove(prev, noise, frame.phasewall_enabled,
                               cfg.phasewall_strength, cfg.sigma)
           Inside(i)  == Norm(prev[i]) <= cfg.sigma
           Escaped(i) == Norm(prev[i]) <= cfg.sigma /\ Norm(pos[i]) > cfg.sigma
       IN /\ rng' = RngAdvance(rng, n * cfg.dim + (IF frame.phasewall_enabled THEN 1 ELSE 0))
          /\ draws' = draws + n * cfg.dim
          /\ frame' = [frame EXCEPT
                         !.positions = pos,
                         !.t = @ + 1,
                         !.escapes = @ + CountTrue([i \in 1..n |-> Escaped(i)]),
                         !.inside_count = @ + CountTrue([i \in 1..n |-> Inside(i)])]
    /\ UNCHANGED <<aggVars, envVars, cfg, fn, pc, call, rets, out, si, mi, sims>>

\* one iteration of _simulate's "for t" loop
WalkerStep ==
    /\ pc = "sim" /\ frame.kind = "walker" /\ frame.t < cfg.steps_or_evals
    /\ LET n     == cfg.n_agents
           prev  == frame.positions
           noise == Rows(rng_normal(rng, 0, cfg.noise_std, n * cfg.dim), n, cfg.dim)
           pos   == WalkerMove(prev, noise, frame.phasewall_enabled,
                               cfg.phasewall_strength, cfg.sigma)
           Inside(i)  == Norm(prev[i]) <= cfg.sigma
           Escaped(i) == Norm(prev[i]) <= cfg.sigma /\ Norm(pos[i]) > cfg.sigma
       IN /\ rng' = RngAdvance(rng, n * cfg.dim)
          /\ draws' = draws + n * cfg.dim
          /\ frame' = [frame EXCEPT
                         !.positions = pos,
                         !.t = @ + 1,
                         !.escapes = @ + CountTrue([i \in 1..n |-> Escaped(i)]),
                         !.inside_count = @ + CountTrue([i \in 1..n |-> Inside(i)])]
    /\ UNCHANGED <<aggVars, envVars, cfg, fn, pc, call, rets, out, si, mi, sims>>

\* _simulate returns its WalkerTrace and the RunResult is appended
WalkerFinish ==
    /\ pc = "sim" /\ frame.kind = "walker" /\ frame.t = cfg.steps_or_evals
    /\ LET n      == cfg.n_agents
           radii  == [i \in 1..n |-> Norm(frame.positions[i])]
           InsideEnd(i) == radii[i] <= cfg.sigma
           score  == RoundDiv(SumSeq(radii), n)
           metrics == [escape_rate |-> <<frame.escapes, Max2(1, frame.inside_count)>>,
                       inside_fraction |-> <<CountTrue([i \in 1..n |-> InsideEnd(i)]), n>>]
       IN out' = Append(out, RunResult(METHODS[mi], cfg.seeds[si], score, metrics))
    /\ NextIteration
    /\ pc' = "loop"
    /\ frame' = NoFrame
    /\ UNCHANGED <<aggVars, envVars, cfg, fn, call, rets, rng, draws, sims>>

\* the seed loop is over: return out
Return ==
    /\ pc = "loop" /\ si > Len(cfg.seeds)
    /\ rets' = Append(rets, [raised |-> FALSE, error |-> "", value |-> out,
                             draws |-> draws, sims |-> sims])
    /\ call' = call + 1
    /\ pc' = "idle"
    /\ UNCHANGED <<aggVars, envVars, cfg, fn, out, si, mi, rng, draws, frame, sims>>

\* ------------------------------------------------------------------------
\* sim_optimizers.py
\* ------------------------------------------------------------------------

\* float("inf"), the initial best
Inf == 1000000000

\* cos(2*pi*k/20) for k = 0..19
CosTable ==
    <<100, 95, 81, 59, 31, 0, -31, -59, -81, -95, -100, -95, -81, -59, -31,
      0, 31, 59, 81, 95>>

Cos2Pi(x) == CosTable[(RoundDiv((x % FP) * 20, FP) % 20) + 1]

\* OBJECTIVE_MAP[objective](x); the name is one of OBJECTIVES
Objective(objective, x) ==
    LET n == Len(x)
    IN CASE objective = "sphere" ->
              SumSeq([j \in 1..n |-> MulFP(x[j], x[j])])
         [] objective = "rosenbrock" ->
              SumSeq([j \in 1..(n - 1) |->
                        LET d == x[j + 1] - MulFP(x[j], x[j])
                            e == FP - x[j]
                        IN 100 * MulFP(d, d) + MulFP(e, e)])
         [] objective = "rastrigin" ->
              10 * FP * n
                + SumSeq([j \in 1..n |-> MulFP(x[j], x[j]) - 10 * Cos2Pi(x[j])])

\* _evaluate_batch after the objective lookup: the noisy values of the rows
\* of x_eval, the noise drawn from generator g when noise_std > 0
_evaluate_batch(x_eval, objective, noise_std, g) ==
    LET n     == Len(x_eval)
        safe  == Mat([i \in 1..n |->
                    [j \in 1..Len(x_eval[i]) |-> Clip(x_eval[i][j], -50 * FP, 50 * FP)]])
        vals  == Vec([i \in 1..n |-> Objective(objective, safe[i])])
        noise == rng_normal(g, 0, noise_std, n)
    IN IF noise_std > 0 THEN Vec([i \in 1..n |-> vals[i] + noise[i]]) ELSE vals

\* random numbers one _evaluate_batch call of n rows draws
EvalDraws(noise_std, n) == IF noise_std > 0 THEN n ELSE 0

\* np.argsort(y): the indices of y in ascending order of value, ties in
\* index order
ArgSort(y) ==
    LET Rank(i) == Cardinality({j \in 1..Len(y) :
                                   y[j] < y[i] \/ (y[j] = y[i] /\ j < i)}) + 1
    IN Vec([k \in 1..Len(y) |-> CHOOSE i \in 1..Len(y) : Rank(i) = k])

MinSeq(y) == CHOOSE v \in {y[i] : i \in 1..Len(y)} : \A i \in 1..Len(y) : v <= y[i]

\* np.mean(rows, axis=0) of a non-empty list of rows
MeanRows(rows) ==
    Vec([j \in 1..Len(rows[1]) |->
           RoundDiv(SumSeq([k \in 1..Len(rows) |-> rows[k][j]]), Len(rows))])

\* np.var(rows, axis=0) of a non-empty list of rows
VarRows(rows) ==
    LET m == MeanRows(rows)
    IN Vec([j \in 1..Len(rows[1]) |->
              RoundDiv(SumSeq([k \in 1..Len(rows) |->
                                 MulFP(rows[k][j] - m[j], rows[k][j] - m[j])]),
                       Len(rows))])

\* the values of y in ascending order
SortedValues(y) == LET o == ArgSort(y) IN Vec([k \in 1..Len(y) |-> y[o[k]]])

\* twice np.median(y) of a non-empty sequence (the median itself may fall
\* half-way between two values)
Median2(y) ==
    LET s == SortedValues(y)
        n == Len(y)
    IN IF n % 2 = 1 THEN 2 * s[(n + 1) \div 2] ELSE s[n \div 2] + s[n \div 2 + 1]

\* np.sqrt of a fixed-point number
SqrtFP(a) == ISqrt(a * FP)

\* r0 = sqrt(dim - 2/3)
ReferenceRadius(dim) == ISqrt(RoundDiv((3 * dim - 2) * FP * FP, 3))

\* 1e-3, the floor of both optimizers' step size
SigmaFloor == RoundDiv(FP, 1000)

\* (mutant) the perturbation is not gated on the observation noise
PhaseEnabled_ungated(method, noise_std) == method = "phasewall"

\* phase = method == "phasewall"; phase = phase and config.noise_std > 0.0
PhaseEnabled(method, noise_std) == method = "phasewall" /\ noise_std > 0

\* (mutant) one iteration of _run_toy_es's while loop with the elite taken
\* from the evaluated points
ToyGeneration_elite_eval(mean, sigma, best, g, phasewall_enabled) ==
    LET pop    == cfg.population_size
        dim    == cfg.dim
        r0     == ReferenceRadius(dim)
        z      == Rows(StdNormals(g, pop * dim), pop, dim)
        g2     == RngAdvance(g, pop * dim)
        XOf(zz) == Mat([i \in 1..pop |->
                          [j \in 1..dim |-> mean[j] + MulFP(sigma, zz[i][j])]])
        x_tell == XOf(z)
        z_eval == Mat([i \in 1..pop |->
                         apply_phase_wall_z(z[i], r0, cfg.phasewall_strength)])
        x_eval == IF phasewall_enabled THEN XOf(z_eval) ELSE x_tell
        y      == _evaluate_batch(x_eval, cfg.objective, cfg.noise_std, g2)
        order  == ArgSort(y)
        mu     == pop \div 2
        elite  == Mat([k \in 1..mu |-> x_eval[order[k]]])
        mean2  == MeanRows(elite)
        dists  == Vec([k \in 1..mu |->
                         Norm([j \in 1..dim |-> elite[k][j] - mean2[j]])])
        spread == DivFP(RoundDiv(SumSeq(dists), mu), SqrtFP(dim * FP))
    IN [mean  |-> mean2,
        sigma |-> RoundDiv(85 * sigma, 100) + RoundDiv(15 * Max2(SigmaFloor, spread), 100),
        best  |-> Min2(best, MinSeq(y)),
        rng   |-> RngAdvance(g2, EvalDraws(cfg.noise_std, pop)),
        x_eval |-> x_eval, x_tell |-> x_tell, y |-> y]

\* one iteration of _run_toy_es's while loop, from mean, sigma, best and
\* generator g, given a known objective
ToyGeneration(mean, sigma, best, g, phasewall_enabled) ==
    LET pop    == cfg.population_size
        dim    == cfg.dim
        r0     == ReferenceRadius(dim)
        z      == Rows(StdNormals(g, pop * dim), pop, dim)
        g2     == RngAdvance(g, pop * dim)
        XOf(zz) == Mat([i \in 1..pop |->
                          [j \in 1..dim |-> mean[j] + MulFP(sigma, zz[i][j])]])
        x_tell == XOf(z)
        z_eval == Mat([i \in 1..pop |->
                         apply_phase_wall_z(z[i], r0, cfg.phasewall_strength)])
        x_eval == IF phasewall_enabled THEN XOf(z_eval) ELSE x_tell
        y      == _evaluate_batch(x_eval, cfg.objective, cfg.noise_std, g2)
        order  == ArgSort(y)
        mu     == pop \div 2
        elite  == Mat([k \in 1..mu |-> x_tell[order[k]]])
        mean2  == MeanRows(elite)
        dists  == Vec([k \in 1..mu |->
                         Norm([j \in 1..dim |-> elite[k][j] - mean2[j]])])
        spread == DivFP(RoundDiv(SumSeq(dists), mu), SqrtFP(dim * FP))
    IN [mean  |-> mean2,
        sigma |-> RoundDiv(85 * sigma, 100) + RoundDiv(15 * Max2(SigmaFloor, spread), 100),
        best  |-> Min2(best, MinSeq(y)),
        rng   |-> RngAdvance(g2, EvalDraws(cfg.noise_std, pop)),
        x_eval |-> x_eval, x_tell |-> x_tell, y |-> y]

\* CmaesStyleOptimizer.ask: <<x_eval, x_tell>> from one row z of draws;
\* strength_on is FALSE when phasewall_strength is None
CmaAsk(mean, sigma, diag_var, z, strength_on) ==
    LET dim    == cfg.dim
        L      == Vec([j \in 1..dim |-> SqrtFP(Clip(diag_var[j], 0, 1000000 * FP))])
        XOf(zz) == Vec([j \in 1..dim |-> mean[j] + MulFP(sigma, MulFP(L[j], zz[j]))])
        z_eval == apply_phase_wall_z(z, ReferenceRadius(dim), cfg.phasewall_strength)
    IN IF strength_on THEN <<XOf(z_eval), XOf(z)>> ELSE <<XOf(z), XOf(z)>>

\* CmaesStyleOptimizer.tell on a full population of <<x_tell, y>> pairs
CmaTell(mean, sigma, diag_var, solutions) ==
    LET order == ArgSort([k \in 1..Len(solutions) |-> solutions[k][2]])
        mu    == cfg.population_size \div 2
        nans  == Vec([j \in 1..cfg.dim |-> "nan"])
        elite == Mat([k \in 1..mu |-> solutions[order[k]][1]])
        new_mean == MeanRows(elite)
        var_est  == VarRows(elite)
        dv    == Vec([j \in 1..cfg.dim |->
                        RoundDiv(90 * diag_var[j], 100)
                          + RoundDiv(10 * Clip(var_est[j], 0, 1000000 * FP), 100)])
        trace == RoundDiv(SumSeq(dv), cfg.dim)
    IN IF mu = 0
       THEN \* np.mean and np.var of an empty elite are nan, and
            \* max(1e-3, min(10.0, nan)) is 10.0
            [mean |-> nans, diag_var |-> nans, sigma |-> 10 * FP]
       ELSE
       [mean |-> [j \in 1..cfg.dim |->
                    Clip(RoundDiv(80 * mean[j], 100) + RoundDiv(20 * new_mean[j], 100),
                         -1000 * FP, 1000 * FP)],
        diag_var |-> dv,
        sigma |-> Max2(SigmaFloor,
                       Min2(10 * FP, RoundDiv(90 * sigma, 100)
                                       + RoundDiv(10 * SqrtFP(trace), 100)))]

\* configurations of the two optimizer engines with an empty population
DegenerateConfigs ==
    {ScenarioConfig("sc", 1, 25, ev, sd, 40, en, "sphere", 0, 120, 100) :
        ev \in {1, MaxEvals}, sd \in SeedLists, en \in {"toy_es", "cmaes_style"}}

\* iterations of an optimizer's main loop that are followed
MaxHistory == 6

\* configurations of the two optimizer engines; the objective may be a name
\* that is not one of OBJECTIVES
OptimizerConfigs ==
    {ScenarioConfig("sc", dm, ns, ev, sd, 40, en, ob, pp, 120, 100) :
        dm \in {1, 2}, ns \in {0, 25}, ev \in 1..MaxEvals, sd \in SeedLists,
        en \in {"toy_es", "cmaes_style"}, ob \in OBJECTIVES \cup {"bogus"},
        pp \in {2, 3}}

\* run_optimizer_scenario is called: the engine check, then out = []
CallOptimizer ==
    /\ pc = "idle" /\ call < 2 /\ fn = "optimizer"
    /\ draws' = 0 /\ sims' = << >>
    /\ IF cfg.engine \notin {"toy_es", "cmaes_style"}
       THEN /\ Raise("ValueError")
            /\ UNCHANGED <<out, si, mi>>
       ELSE /\ out' = NewOut
            /\ si' = 1 /\ mi' = 1
            /\ pc' = "loop"
            /\ UNCHANGED <<rets, call, frame>>
    /\ UNCHANGED <<aggVars, envVars, cfg, fn, rng>>

\* _run_toy_es begins for (seed, method)
BeginToyRun ==
    /\ pc = "loop" /\ fn = "optimizer" /\ cfg.engine = "toy_es"
    /\ si <= Len(cfg.seeds)
    /\ rng' = default_rng(cfg.seeds[si])
    /\ frame' = [kind |-> "toy_es",
                 phasewall_enabled |-> PhaseEnabled(METHODS[mi], cfg.noise_std),
                 mean |-> [j \in 1..cfg.dim |-> 3 * FP], sigma |-> 2 * FP,
                 best |-> Inf, evals |-> 0, history_len |-> 0,
                 x_eval |-> << >>, x_tell |-> << >>]
    /\ sims' = Append(sims, <<cfg.seeds[si], METHODS[mi]>>)
    /\ pc' = "sim"
    /\ UNCHANGED <<aggVars, envVars, cfg, fn, call, rets, out, si, mi, draws>>

\* (mutant) one iteration of the while loop counted as one evaluation
ToyStep_count_generations ==
    /\ pc = "sim" /\ frame.kind = "toy_es" /\ frame.evals < cfg.steps_or_evals
    /\ IF cfg.objective \notin OBJECTIVES
       THEN /\ draws' = draws + cfg.population_size * cfg.dim
            /\ rng' = RngAdvance(rng, cfg.population_size * cfg.dim)
            /\ Raise("KeyError")
            /\ UNCHANGED <<out, si, mi>>
       ELSE IF cfg.population_size = 0
       THEN \* np.min(y) of an empty array raises
            /\ draws' = draws /\ rng' = rng
            /\ Raise("ValueError")
            /\ UNCHANGED <<out, si, mi>>
       ELSE LET g == ToyGeneration(frame.mean, frame.sigma, frame.best, rng,
                                   frame.phasewall_enabled)
            IN /\ rng' = g.rng
               /\ draws' = draws + cfg.population_size * cfg.dim
                             + EvalDraws(cfg.noise_std, cfg.population_size)
               /\ frame' = [frame EXCEPT
                              !.mean = g.mean, !.sigma = g.sigma, !.best = g.best,
                              !.evals = @ + 1,
                              !.history_len = @ + 1,
                              !.x_eval = g.x_eval, !.x_tell = g.x_tell]
               /\ UNCHANGED <<pc, call, rets, out, si, mi>>
    /\ UNCHANGED <<aggVars, envVars, cfg, fn, sims>>

\* one iteration of _run_toy_es's while loop; an unknown objective name
\* raises KeyError in _evaluate_batch, after the offsets were sampled
ToyStep ==
    /\ pc = "sim" /\ frame.kind = "toy_es" /\ frame.evals < cfg.steps_or_evals
    /\ IF cfg.objective \notin OBJECTIVES
       THEN /\ draws' = draws + cfg.population_size * cfg.dim
            /\ rng' = RngAdvance(rng, cfg.population_size * cfg.dim)
            /\ Raise("KeyError")
            /\ UNCHANGED <<out, si, mi>>
       ELSE IF cfg.population_size = 0
       THEN \* np.min(y) of an empty array raises
            /\ draws' = draws /\ rng' = rng
            /\ Raise("ValueError")
            /\ UNCHANGED <<out, si, mi>>
       ELSE LET g == ToyGeneration(frame.mean, frame.sigma, frame.best, rng,
                                   frame.phasewall_enabled)
            IN /\ rng' = g.rng
               /\ draws' = draws + cfg.population_size * cfg.dim
                             + EvalDraws(cfg.noise_std, cfg.population_size)
               /\ frame' = [frame EXCEPT
                              !.mean = g.mean, !.sigma = g.sigma, !.best = g.best,
                              !.evals = @ + cfg.population_size,
                              !.history_len = @ + 1,
                              !.x_eval = g.x_eval, !.x_tell = g.x_tell]
               /\ UNCHANGED <<pc, call, rets, out, si, mi>>
    /\ UNCHANGED <<aggVars, envVars, cfg, fn, sims>>

\* an OptimizerRun is returned and its RunResult appended
OptimizerFinish ==
    /\ pc = "sim" /\ frame.kind \in {"toy_es", "cmaes_style"}
    /\ frame.evals >= cfg.steps_or_evals
    /\ frame.kind = "cmaes_style" => frame.loc = "while"
    /\ out' = Append(out, RunResult(METHODS[mi], cfg.seeds[si], frame.best,
                                    [evals |-> frame.evals,
                                     history_len |-> frame.history_len]))
    /\ NextIteration
    /\ pc' = "loop"
    /\ frame' = NoFrame
    /\ UNCHANGED <<aggVars, envVars, cfg, fn, call, rets, rng, draws, sims>>

\* _run_cmaes_style begins: the optimizer with its generator, and the
\* generator of the observation noise
BeginCmaRun ==
    /\ pc = "loop" /\ fn = "optimizer" /\ cfg.engine = "cmaes_style"
    /\ si <= Len(cfg.seeds)
    /\ rng' = default_rng(cfg.seeds[si] + 100000)
    /\ frame' = [kind |-> "cmaes_style",
                 phasewall_on |-> (PhaseEnabled(METHODS[mi], cfg.noise_std)
                                     /\ cfg.noise_std > 0),
                 opt_rng |-> default_rng(cfg.seeds[si]),
                 mean |-> [j \in 1..cfg.dim |-> 3 * FP], sigma |-> 2 * FP,
                 diag_var |-> [j \in 1..cfg.dim |-> FP],
                 best |-> Inf, evals |-> 0, history_len |-> 0,
                 loc |-> "while", solutions |-> << >>, asked |-> 0, tells |-> 0,
                 x_eval |-> << >>, x_tell |-> << >>]
    /\ sims' = Append(sims, <<cfg.seeds[si], METHODS[mi]>>)
    /\ pc' = "sim"
    /\ UNCHANGED <<aggVars, envVars, cfg, fn, call, rets, out, si, mi, draws>>

\* the while test of _run_cmaes_style succeeds: solutions = []
CmaWhile ==
    /\ pc = "sim" /\ frame.kind = "cmaes_style" /\ frame.loc = "while"
    /\ frame.evals < cfg.steps_or_evals
    /\ frame.history_len < MaxHistory
    /\ frame' = [frame EXCEPT !.loc = "for", !.solutions = << >>, !.asked = 0]
    /\ UNCHANGED <<aggVars, envVars, cfg, fn, pc, call, rets, out, si, mi, rng, draws, sims>>

\* one iteration of the for loop: ask, evaluate, record, count, maybe break
CmaAskEval ==
    /\ pc = "sim" /\ frame.kind = "cmaes_style" /\ frame.loc = "for"
    /\ frame.asked < cfg.population_size
    /\ IF cfg.objective \notin OBJECTIVES
       THEN /\ draws' = draws + cfg.dim
            /\ Raise("KeyError")
            /\ UNCHANGED <<out, si, mi, rng>>
       ELSE LET z     == StdNormals(frame.opt_rng, cfg.dim)
                asked == CmaAsk(frame.mean, frame.sigma, frame.diag_var, z,
                                frame.phasewall_on)
                y     == _evaluate_batch(<<asked[1]>>, cfg.objective,
                                         cfg.noise_std, rng)[1]
            IN /\ rng' = RngAdvance(rng, EvalDraws(cfg.noise_std, 1))
               /\ draws' = draws + cfg.dim + EvalDraws(cfg.noise_std, 1)
               /\ frame' = [frame EXCEPT
                              !.opt_rng = RngAdvance(@, cfg.dim),
                              !.best = Min2(@, y),
                              !.solutions = Append(@, <<asked[2], y>>),
                              !.evals = @ + 1,
                              !.asked = @ + 1,
                              !.x_eval = asked[1], !.x_tell = asked[2],
                              !.loc = IF frame.evals + 1 >= cfg.steps_or_evals
                                      THEN "after" ELSE "for"]
               /\ UNCHANGED <<pc, call, rets, out, si, mi>>
    /\ UNCHANGED <<aggVars, envVars, cfg, fn, sims>>

\* (mutant) after the for loop: tell() on whatever was evaluated
CmaEndGeneration_tell_partial ==
    /\ pc = "sim" /\ frame.kind = "cmaes_style"
    /\ \/ frame.loc = "after"
       \/ frame.loc = "for" /\ frame.asked >= cfg.population_size
    /\ IF Len(frame.solutions) <= cfg.population_size
       THEN LET t == CmaTell(frame.mean, frame.sigma, frame.diag_var, frame.solutions)
            IN frame' = [frame EXCEPT
                           !.mean = t.mean, !.sigma = t.sigma,
                           !.diag_var = t.diag_var, !.tells = @ + 1,
                           !.history_len = @ + 1, !.loc = "while"]
       ELSE frame' = [frame EXCEPT !.history_len = @ + 1, !.loc = "while"]
    /\ UNCHANGED <<aggVars, envVars, cfg, fn, pc, call, rets, out, si, mi, rng, draws, sims>>

\* after the for loop: tell() on a full population, history.append(best)
CmaEndGeneration ==
    /\ pc = "sim" /\ frame.kind = "cmaes_style"
    /\ \/ frame.loc = "after"
       \/ frame.loc = "for" /\ frame.asked >= cfg.population_size
    /\ IF Len(frame.solutions) = cfg.population_size
       THEN LET t == CmaTell(frame.mean, frame.sigma, frame.diag_var, frame.solutions)
            IN frame' = [frame EXCEPT
                           !.mean = t.mean, !.sigma = t.sigma,
                           !.diag_var = t.diag_var, !.tells = @ + 1,
                           !.history_len = @ + 1, !.loc = "while"]
       ELSE frame' = [frame EXCEPT !.history_len = @ + 1, !.loc = "while"]
    /\ UNCHANGED <<aggVars, envVars, cfg, fn, pc, call, rets, out, si, mi, rng, draws, sims>>

\* ------------------------------------------------------------------------
\* metrics.py: aggregation
\*
\* Aggregation is invariant under the scale of the scores except for the
\* floor 1e-12 of _safe_ratio, so the scores given to the aggregator are
\* integers in units of 5e-13 and every statistic is an exact rational
\* num/den of that unit.
\* ------------------------------------------------------------------------

\* float("nan")
NaN == [nan |-> TRUE, num |-> 0, den |-> 1]

RECURSIVE GCD(_, _)
GCD(a, b) == IF b = 0 THEN a ELSE GCD(b, a % b)

\* the float n/d (d > 0), in lowest terms
Real(n, d) ==
    LET g == GCD(Abs(n), d)
    IN [nan |-> FALSE, num |-> n \div g, den |-> d \div g]

RealLt(a, b) == a.num * b.den < b.num * a.den

\* Python max(a, b) of two numbers: b only if it is greater
RealMax(a, b) == IF RealLt(a, b) THEN b ELSE a

\* a / b for b > 0
RealDiv(a, b) == Real(a.num * b.den, a.den * b.num)

\* the literal 1e-12 of _safe_ratio
RatioFloor == 2

\* resamples of bootstrap_ci (n_boot; 2000 by default in the code)
NBoot == 3

\* np.percentile(a, q) by linear interpolation, for a given as twice its
\* values and q in tenths of a percent
Percentile(a2, q10) ==
    LET s == SortedValues(a2)
        pos == q10 * (Len(a2) - 1)
        lo == pos \div 1000
        hi == Min2(lo + 1, Len(a2) - 1)
    IN Real(s[lo + 1] * 1000 + (pos % 1000) * (s[hi + 1] - s[lo + 1]), 2000)

\* (mutant) bootstrap_ci with the two percentiles exchanged
bootstrap_ci_swapped(values) ==
    IF Len(values) = 0 THEN <<NaN, NaN>>
    ELSE LET n == Len(values)
             g == default_rng(0)
             draws_ == Vec([i \in 1..(NBoot * n) |->
                              values[(RngAdvance(g, i) % n) + 1]])
             meds == Vec([b \in 1..NBoot |->
                            Median2(Vec([j \in 1..n |-> draws_[(b - 1) * n + j]]))])
         IN <<Percentile(meds, 975), Percentile(meds, 25)>>

\* bootstrap_ci(values): np.random.default_rng(0), n_boot resamples with
\* replacement, the 2.5 and 97.5 percentiles of the resampled medians
bootstrap_ci(values) ==
    IF Len(values) = 0 THEN <<NaN, NaN>>
    ELSE LET n == Len(values)
             g == default_rng(0)
             draws_ == Vec([i \in 1..(NBoot * n) |->
                              values[(RngAdvance(g, i) % n) + 1]])
             meds == Vec([b \in 1..NBoot |->
                            Median2(Vec([j \in 1..n |-> draws_[(b - 1) * n + j]]))])
         IN <<Percentile(meds, 25), Percentile(meds, 975)>>

\* the literal 1e-12 in the unit of the scores aggregated: RatioFloor units
\* of 5e-13 for a list given to the aggregator directly; for the results of
\* the runner, whose unit is 1/FP, it rounds to 0 units
ScoreFloor == IF bench.pc = "off" THEN RatioFloor ELSE 0

\* _safe_ratio without the floor on the divisor
_safe_ratio_unfloored(value, baseline) ==
    IF baseline.num <= 0 \/ value.num < 0 THEN NaN ELSE RealDiv(value, baseline)

\* _safe_ratio(value, baseline)
_safe_ratio(value, baseline) ==
    IF baseline.num <= 0 \/ value.num < 0
    THEN NaN
    ELSE RealDiv(value, RealMax(Real(ScoreFloor, 1), baseline))

\* the p-value of stats.wilcoxon(x, y, alternative="greater") inside the
\* try/except of aggregate_results: the number scipy computes for the paired
\* samples, or NaN when every difference is zero (scipy then raises, or
\* returns NaN itself)
wilcoxon(x, y) ==
    IF \A k \in 1..Len(x) : x[k] = y[k]
    THEN NaN
    ELSE [nan |-> FALSE, x |-> x, y |-> y]

\* the strings the aggregator sorts, in ascending order of Python's str
SortedNames ==
    <<"cmaes_style",
      "cmaes_style_rastrigin_10d",
      "cmaes_style_rastrigin_2d",
      "cmaes_style_rosenbrock_10d",
      "cmaes_style_rosenbrock_2d",
      "cmaes_style_sphere_10d",
      "cmaes_style_sphere_2d",
      "phasewall",
      "sc",
      "toy_es",
      "toy_es_rastrigin_10d",
      "toy_es_rastrigin_2d",
      "toy_es_rosenbrock_10d",
      "toy_es_rosenbrock_2d",
      "toy_es_sphere_10d",
      "toy_es_sphere_2d",
      "vanilla",
      "walker",
      "walker_2d_noisy">>

NameRank(s) == CHOOSE k \in 1..Len(SortedNames) : SortedNames[k] = s

\* tuple comparison of two pairs of strings
PairLess(a, b) ==
    \/ NameRank(a[1]) < NameRank(b[1])
    \/ a[1] = b[1] /\ NameRank(a[2]) < NameRank(b[2])

NameLess(a, b) == NameRank(a) < NameRank(b)

\* sorted(by_pair.items()): the (scenario, engine) pairs in ascending order
SortedPairs(S) ==
    Vec([k \in 1..Cardinality(S) |->
           CHOOSE x \in S : Cardinality({y \in S : PairLess(y, x)}) = k - 1])

\* sorted(method_map.items()): the methods of a pair in ascending order
SortedMethods(S) ==
    Vec([k \in 1..Cardinality(S) |->
           CHOOSE x \in S : Cardinality({y \in S : NameLess(y, x)}) = k - 1])

RECURSIVE ConcatAll(_)
ConcatAll(ss) == IF ss = << >> THEN << >> ELSE Head(ss) \o ConcatAll(Tail(ss))

\* grouped[(scenario, engine, method)]: the rows of the key, in list order
GroupRows(rs, scenario, engine, method) ==
    SelectSeq(rs, LAMBDA r : r.scenario = scenario /\ r.engine = engine
                             /\ r.method = method)

ScoresOf(rows) == Vec([k \in 1..Len(rows) |-> rows[k].score])

\* baseline_by_seed[seed]: the dict comprehension keeps the last vanilla row
\* of a seed
BaselineBySeed(baseline_rows, seed) ==
    LET ks == {k \in 1..Len(baseline_rows) : baseline_rows[k].seed = seed}
    IN baseline_rows[CHOOSE k \in ks : \A j \in ks : j <= k].score

\* win_rate of the vanilla row without the sentinel
VanillaWinRate_unset == NaN

\* win_rate = 0.5 of the vanilla row
VanillaWinRate == Real(1, 2)

\* np.std(scores) = sqrt(sum of dev[k]^2 / n) / n with dev[k] = n * scores[k]
\* - sum(scores), rounded to 1/FP of a unit; scores far apart keep fewer
\* digits after the point, as a float64 keeps a fixed number of digits
StdScore(scores) ==
    LET n == Len(scores)
        total == SumSeq(scores)
        dev == Vec([k \in 1..n |-> Abs(n * scores[k] - total)])
        m == SumSeq(dev)
        SumSq(y) == SumSeq([k \in 1..n |-> y[k] * y[k]])
    IN IF m * FP <= 10000
       THEN Real(ISqrt(RoundDiv(SumSq([k \in 1..n |-> dev[k] * FP]), n * n * n)), FP)
       ELSE IF m <= 10000
       THEN Real(ISqrt(RoundDiv(SumSq(dev), n * n * n)), 1)
       ELSE Real(ISqrt(RoundDiv(SumSq([k \in 1..n |-> RoundDiv(dev[k], 1000)]),
                                n * n * n)) * 1000, 1)

\* the guard of the signed-rank test accepting a single pair
Tested_one(method, n_pairs) == n_pairs >= 1 /\ method # "vanilla"

\* len(paired_a) >= 2 and method != "vanilla"
Tested(method, n_pairs) == n_pairs >= 2 /\ method # "vanilla"

\* one iteration of the inner loop of aggregate_results: the AggregateResult
\* of a (scenario, engine, method) key
AggregateRow(rs, scenario, engine, method) ==
    LET rows == GroupRows(rs, scenario, engine, method)
        baseline_rows == GroupRows(rs, scenario, engine, "vanilla")
        scores == ScoresOf(rows)
        baseline_scores == ScoresOf(baseline_rows)
        ci == bootstrap_ci(scores)
        n == Len(scores)
        total == SumSeq(scores)
        median == Real(Median2(scores), 2)
        has_baseline == Len(baseline_scores) > 0
        paired == SelectSeq(rows, LAMBDA r :
                     \E k \in 1..Len(baseline_rows) : baseline_rows[k].seed = r.seed)
        paired_a == Vec([k \in 1..Len(paired) |->
                           BaselineBySeed(baseline_rows, paired[k].seed)])
        paired_b == ScoresOf(paired)
        tested == has_baseline /\ Tested(method, Len(paired_a))
    IN [scenario |-> scenario, engine |-> engine, method |-> method,
        n |-> n,
        median_score |-> median,
        mean_score |-> Real(total, n),
        std_score |-> StdScore(scores),
        ci_low |-> ci[1],
        ci_high |-> ci[2],
        win_rate |->
            IF tested
            THEN Real(Cardinality({k \in 1..Len(paired_a) : paired_b[k] < paired_a[k]}),
                      Len(paired_a))
            ELSE IF has_baseline /\ method = "vanilla" THEN VanillaWinRate ELSE NaN,
        ratio_vs_vanilla |->
            IF has_baseline
            THEN _safe_ratio(median, Real(Median2(baseline_scores), 2))
            ELSE NaN,
        wilcoxon_p |-> IF tested THEN wilcoxon(paired_a, paired_b) ELSE NaN]

\* aggregate_results(results): one row per (scenario, engine, method) key,
\* the (scenario, engine) pairs in sorted order and the methods of a pair in
\* sorted order
aggregate_results(rs) ==
    LET pairs == SortedPairs({<<rs[i].scenario, rs[i].engine>> : i \in 1..Len(rs)})
        MethodsOf(p) ==
            SortedMethods({rs[i].method : i \in {j \in 1..Len(rs) :
                             rs[j].scenario = p[1] /\ rs[j].engine = p[2]}})
    IN ConcatAll(Vec([k \in 1..Len(pairs) |->
           LET ms == MethodsOf(pairs[k])
           IN Vec([j \in 1..Len(ms) |->
                     AggregateRow(rs, pairs[k][1], pairs[k][2], ms[j])])]))

\* ------------------------------------------------------------------------
\* reporting.py: the artifact bundle
\* ------------------------------------------------------------------------

\* labels of plot_score_bars: the (scenario, engine) pairs of the vanilla and
\* phasewall aggregates
BarLabels(aggregates) ==
    {<<aggregates[i].scenario, aggregates[i].engine>> :
        i \in {j \in 1..Len(aggregates) :
                  aggregates[j].method \in {"vanilla", "phasewall"}}}

\* next(a for a in rows if ... a.method == method) finds a row
HasBar(aggregates, label, method) ==
    \E i \in 1..Len(aggregates) :
        /\ aggregates[i].scenario = label[1]
        /\ aggregates[i].engine = label[2]
        /\ aggregates[i].method = method

\* plot_score_bars leaves its generator expressions exhausted for some label
BarsRaise(aggregates) ==
    \E label \in BarLabels(aggregates) :
        ~HasBar(aggregates, label, "vanilla") \/ ~HasBar(aggregates, label, "phasewall")

\* the RunResult lists given to the aggregator: the rows of a walker
\* scenario over up to MaxAggSeeds seeds, any of them missing, followed by
\* the rows of a toy_es scenario over one seed
MaxAggSeeds == 3

AggScores == {-1, 1, 3}

\* the scores a row of a seed may carry: every score for the first two
\* seeds, one score for the seeds after them
CellScores(seed) == IF seed <= 2 THEN AggScores ELSE {1}

\* the (seed, method) cells of the walker scenario: no row or one row each
Grids ==
    {g \in [(1..MaxAggSeeds) \X {"vanilla", "phasewall"} ->
               {<< >>} \cup {<<s>> : s \in AggScores}] :
        \A c \in DOMAIN g : \A k \in 1..Len(g[c]) : g[c][k] \in CellScores(c[1])}

AggRow(engine, method, seed, score) ==
    [scenario |-> "sc", engine |-> engine, method |-> method, seed |-> seed,
     score |-> score, metrics |-> << >>]

RECURSIVE GridRows(_, _)
GridRows(grid, seed) ==
    IF seed > MaxAggSeeds THEN << >>
    ELSE [k \in 1..Len(grid[<<seed, "vanilla">>]) |->
             AggRow("walker", "vanilla", seed, grid[<<seed, "vanilla">>][k])]
         \o [k \in 1..Len(grid[<<seed, "phasewall">>]) |->
                AggRow("walker", "phasewall", seed, grid[<<seed, "phasewall">>][k])]
         \o GridRows(grid, seed + 1)

SecondScenarioRows ==
    {<< >>,
     <<AggRow("toy_es", "phasewall", 1, 1)>>,
     <<AggRow("toy_es", "vanilla", 1, 3), AggRow("toy_es", "phasewall", 1, 1)>>}

ResultLists ==
    {GridRows(grid, 1) \o second :
        grid \in Grids,
        second \in SecondScenarioRows}

\* aggs = aggregate_results(all_results)
AggregateResults ==
    /\ apc = "start"
    /\ aggs' = aggregate_results(results)
    /\ apc' = "aggregated"
    /\ UNCHANGED <<runVars, envVars, results, files, aerr>>

\* open(path, "w") / fig.savefig(path) of the artifact called name in the
\* directory write_bundle was given: the file is created, or replaced if a
\* file of that name is already there
WriteFile(name) ==
    [disk EXCEPT !.files =
        {f \in @ : ~(f.dir = bench.resolved /\ f.name = name)}
        \cup {[dir |-> bench.resolved, name |-> name, by |-> bench.inv]}]

\* write_results_csv(results, out_dir / "results.csv")
WriteResultsCsv ==
    /\ apc = "aggregated"
    /\ files' = Append(files, "results.csv")
    /\ disk' = WriteFile("results.csv")
    /\ apc' = "csv"
    /\ UNCHANGED <<runVars, results, aggs, aerr, bench, probe>>

\* write_summary_md(aggregates, scenarios, seed_count, out_dir / "summary.md")
WriteSummaryMd ==
    /\ apc = "csv"
    /\ files' = Append(files, "summary.md")
    /\ disk' = WriteFile("summary.md")
    /\ apc' = "summary"
    /\ UNCHANGED <<runVars, results, aggs, aerr, bench, probe>>

\* plot_score_bars(aggregates, out_dir / "fig_score_bars.png"): StopIteration
\* leaves next() before the figure is saved
PlotScoreBars ==
    /\ apc = "summary"
    /\ IF BarsRaise(aggs)
       THEN /\ apc' = "raised"
            /\ aerr' = "StopIteration"
            /\ UNCHANGED <<files, disk>>
       ELSE /\ files' = Append(files, "fig_score_bars.png")
            /\ disk' = WriteFile("fig_score_bars.png")
            /\ apc' = "bars"
            /\ UNCHANGED aerr
    /\ UNCHANGED <<runVars, results, aggs, bench, probe>>

\* plot_win_rate(aggregates, out_dir / "fig_win_rate.png")
PlotWinRate ==
    /\ apc = "bars"
    /\ files' = Append(files, "fig_win_rate.png")
    /\ disk' = WriteFile("fig_win_rate.png")
    /\ apc' = "done"
    /\ UNCHANGED <<runVars, results, aggs, aerr, bench, probe>>

\* a RunResult list aggregated and written as a bundle
InitAgg ==
    /\ results \in ResultLists
    /\ aggs = << >> /\ files = << >> /\ apc = "start" /\ aerr = ""
    /\ cfg = ScenarioConfig("sc", 2, 0, 1, << >>, 40, "walker", "sphere", 24, 1, 100)
    /\ fn = "walker"
    /\ pc = "off" /\ call = 0 /\ rets = << >>
    /\ out = << >> /\ si = 1 /\ mi = 1
    /\ rng = 0 /\ draws = 0 /\ sims = << >> /\ frame = NoFrame
    /\ bench = NoBench /\ disk = NoDisk /\ probe = NoProbe

NextAgg ==
    \/ AggregateResults
    \/ WriteResultsCsv
    \/ WriteSummaryMd
    \/ PlotScoreBars
    \/ PlotWinRate

SpecAgg == InitAgg /\ [][NextAgg]_vars

\* ------------------------------------------------------------------------
\* geometry.compute_curvature_sign and phasewall.apply_phase_wall_z applied
\* alone to given arguments
\* ------------------------------------------------------------------------

\* the default tol = 1e-10 of compute_curvature_sign; radii and sigma are
\* integers in units of 5e-6, so squares are in units of 2.5e-11
CurvatureTol == 4

\* (mutant) compute_curvature_sign with the difference of squares reversed
compute_curvature_sign_reversed(r, sigma) ==
    Vec([k \in 1..Len(r) |->
           LET val == r[k] * r[k] - sigma * sigma
           IN IF val > CurvatureTol THEN 1
              ELSE IF val < -CurvatureTol THEN -1 ELSE 0])

\* compute_curvature_sign(r, sigma) for an array r
compute_curvature_sign(r, sigma) ==
    Vec([k \in 1..Len(r) |->
           LET val == sigma * sigma - r[k] * r[k]
           IN IF val > CurvatureTol THEN 1
              ELSE IF val < -CurvatureTol THEN -1 ELSE 0])

\* largest radius and sigma given to compute_curvature_sign, in its units
MaxRadius == 4

\* largest coordinate of a vector given to apply_phase_wall_z, in halves
MaxCoord == 6

\* vectors z, reference radii r0 and strengths given to apply_phase_wall_z
PhaseWallVectors ==
    {<<x * (FP \div 2), y * (FP \div 2)>> : x, y \in (-MaxCoord)..MaxCoord}

PhaseWallRadii == {1, FP \div 2, FP, 2 * FP}

PhaseWallStrengths == {-FP \div 2, 0, 40, FP, 2 * FP}

\* agent positions on the coordinate axes, at radii from 0 up to the largest
\* reference radius and beyond
AgentPositions ==
    {<<x * (FP \div 2), 0>> : x \in (-MaxRadius)..MaxRadius} \cup
    {<<0, y * (FP \div 2)>> : y \in (-MaxRadius)..MaxRadius}

\* noise rows pointing inward, outward and sideways of those positions
NoiseRows ==
    {<<x * (FP \div 2), y * (FP \div 2)>> : x, y \in -2..2}

\* score arrays of up to two seeds, the empty array included
ScoreArrays ==
    {<< >>} \cup {<<a>> : a \in {0, 1, 3}} \cup {<<a, b>> : a, b \in {0, 1, 3}}

\* the arguments of one call
ProbeArgs(f, z, p, r0, strength, r, sigma) ==
    [pc |-> "args", fn |-> f, z |-> z, p |-> p, r0 |-> r0,
     strength |-> strength, r |-> r, sigma |-> sigma, out |-> << >>]

\* apply_phase_wall_z(z, r0, strength) is called on a single vector
ApplyPhaseWall ==
    /\ probe.pc = "args" /\ probe.fn = "apply_phase_wall_z"
    /\ probe' = [probe EXCEPT
                   !.pc = "done",
                   !.out = apply_phase_wall_z(probe.z, probe.r0, probe.strength)]
    /\ UNCHANGED <<runVars, aggVars, bench, disk>>

\* phase_aware_noise(positions, noise, r0, strength) is called on one agent's
\* position p and noise row z
PhaseAwareNoise ==
    /\ probe.pc = "args" /\ probe.fn = "phase_aware_noise"
    /\ probe' = [probe EXCEPT
                   !.pc = "done",
                   !.out = phase_aware_noise(probe.p, probe.z, probe.r0,
                                             probe.strength)]
    /\ UNCHANGED <<runVars, aggVars, bench, disk>>

\* bootstrap_ci is called on each of the score arrays r[1], r[2], ... in turn
BootstrapCi ==
    /\ probe.pc = "args" /\ probe.fn = "bootstrap_ci"
    /\ probe' = [probe EXCEPT
                   !.pc = "done",
                   !.out = Mat([i \in 1..Len(probe.r) |-> bootstrap_ci(probe.r[i])])]
    /\ UNCHANGED <<runVars, aggVars, bench, disk>>

\* compute_curvature_sign(r, sigma) is called on an array
ComputeCurvatureSign ==
    /\ probe.pc = "args" /\ probe.fn = "compute_curvature_sign"
    /\ probe' = [probe EXCEPT
                   !.pc = "done",
                   !.out = compute_curvature_sign(probe.r, probe.sigma)]
    /\ UNCHANGED <<runVars, aggVars, bench, disk>>

InitMath ==
    /\ probe \in
         {ProbeArgs("apply_phase_wall_z", z, << >>, r0, st, << >>, 0) :
             z \in PhaseWallVectors, r0 \in PhaseWallRadii,
             st \in PhaseWallStrengths}
         \cup
         {ProbeArgs("phase_aware_noise", z, p, r0, st, << >>, 0) :
             z \in NoiseRows, p \in AgentPositions, r0 \in PhaseWallRadii,
             st \in PhaseWallStrengths}
         \cup
         {ProbeArgs("bootstrap_ci", << >>, << >>, 0, 0, <<a, b, c>>, 0) :
             a, b, c \in ScoreArrays}
         \cup
         {ProbeArgs("compute_curvature_sign", << >>, << >>, 0, 0, <<r1, r2>>, sg) :
             r1 \in 0..MaxRadius, r2 \in 0..MaxRadius, sg \in 1..MaxRadius}
    /\ bench = NoBench /\ disk = NoDisk
    /\ results = << >> /\ aggs = << >> /\ files = << >>
    /\ apc = "off" /\ aerr = ""
    /\ cfg = ScenarioConfig("sc", 2, 0, 1, << >>, 40, "walker", "sphere", 24, 1, 100)
    /\ fn = "walker"
    /\ pc = "off" /\ call = 0 /\ rets = << >>
    /\ out = << >> /\ si = 1 /\ mi = 1
    /\ rng = 0 /\ draws = 0 /\ sims = << >> /\ frame = NoFrame

NextMath ==
    \/ ApplyPhaseWall
    \/ BootstrapCi
    \/ PhaseAwareNoise
    \/ ComputeCurvatureSign

SpecMath == InitMath /\ [][NextMath]_vars

\* ------------------------------------------------------------------------
\* run_bench.py: run_benchmark invoked twice on one file system, with
\* config.core_benchmark_scenarios and reporting.ensure_artifact_dir
\* ------------------------------------------------------------------------

\* make_seed_list(seed_count, base_seed) with its range shortened by one
make_seed_list_short(seed_count, base_seed) ==
    [i \in 1..(seed_count - 1) |-> base_seed + i - 1]

\* make_seed_list(seed_count, base_seed)
make_seed_list(seed_count, base_seed) ==
    [i \in 1..seed_count |-> base_seed + i - 1]

\* the tuple OBJECTIVES in its order
ObjectiveOrder == <<"sphere", "rosenbrock", "rastrigin">>

\* "for dim in (2, 10)": the dimensions simulated, 10 scaled down to 3
CoreDims == <<2, 3>>

\* f"{engine}_{objective}_{dim}d" for the dimensions 2 and 10 of the code
CoreNames ==
    [toy_es |->
        [sphere |-> <<"toy_es_sphere_2d", "toy_es_sphere_10d">>,
         rosenbrock |-> <<"toy_es_rosenbrock_2d", "toy_es_rosenbrock_10d">>,
         rastrigin |-> <<"toy_es_rastrigin_2d", "toy_es_rastrigin_10d">>],
     cmaes_style |->
        [sphere |-> <<"cmaes_style_sphere_2d", "cmaes_style_sphere_10d">>,
         rosenbrock |-> <<"cmaes_style_rosenbrock_2d", "cmaes_style_rosenbrock_10d">>,
         rastrigin |-> <<"cmaes_style_rastrigin_2d", "cmaes_style_rastrigin_10d">>]]

\* core_benchmark_scenarios(seed_count): the walker scenario, then a toy_es
\* and a cmaes_style scenario for every dimension and objective.  The sizes
\* are scaled down: MaxSteps steps for 120, MaxEvals evaluations for 1200,
\* populations of 2 for 24, 2 agents for 140
core_benchmark_scenarios(seed_count) ==
    LET seeds == make_seed_list(seed_count, 100)
        Optimizer(k) ==
            LET p == (k - 1) \div 2
                d == (p \div 3) + 1
                o == ObjectiveOrder[(p % 3) + 1]
                e == IF k % 2 = 1 THEN "toy_es" ELSE "cmaes_style"
            IN ScenarioConfig(CoreNames[e][o][d], CoreDims[d], 10, MaxEvals,
                              seeds, 40, e, o, 2, 120, 100)
    IN <<ScenarioConfig("walker_2d_noisy", 2, 25, MaxSteps, seeds, 40,
                        "walker", "sphere", 24, 2, 100)>>
       \o [k \in 1..(2 * Len(CoreDims) * Len(ObjectiveOrder)) |-> Optimizer(k)]

\* values of the preset argument
Presets == {"core", "full"}

\* values of the out_dir argument, as path components
OutDirs == {<<"artifacts", "latest">>, <<"artifacts", "run1">>}

\* the preset check of run_benchmark accepting every preset
PresetSupported_any(preset) == TRUE

\* not (preset != "core")
PresetSupported(preset) == preset = "core"

\* ValueError(f"Unsupported preset: {preset}")
UnsupportedPreset(preset) ==
    [type |-> "ValueError", msg |-> <<"Unsupported preset: ", preset>>]

\* the statements of run_benchmark after the preset check, with the output
\* directory made first
BenchOrder_dir_first == <<"build", "ensure_dir", "simulate", "aggregate", "bundle">>

\* the statements of run_benchmark after the preset check, in order
BenchOrder == <<"build", "simulate", "aggregate", "ensure_dir", "bundle">>

\* the statement that follows a statement of run_benchmark
StepAfter(step) ==
    LET k == CHOOSE j \in 1..Len(BenchOrder) : BenchOrder[j] = step
    IN IF k < Len(BenchOrder) THEN BenchOrder[k + 1] ELSE "return"

\* the clock ticks twice a second, up to MaxTime ticks
MaxTime == 2

\* datetime.now().strftime("%Y%m%d-%H%M%S") at tick t: one name per second
strftime(t) ==
    <<"20261101-120000", "20261101-120001", "20261101-120002",
      "20261101-120003">>[(t \div 2) + 1]

\* the directories mkdir(parents=True, exist_ok=True) leaves in existence
MkdirParents(path) == {SubSeq(path, 1, k) : k \in 1..Len(path)}

\* ensure_artifact_dir(base_out) with the clock at tick t: the directory
\* resolved and the directories in existence afterwards
ensure_artifact_dir(base_out, t, dirs) ==
    LET latest == Len(base_out) > 0 /\ base_out[Len(base_out)] = "latest"
        parent == SubSeq(base_out, 1, Len(base_out) - 1)
        o      == IF latest THEN Append(parent, strftime(t)) ELSE base_out
    IN [out  |-> o,
        dirs |-> dirs \cup (IF latest THEN MkdirParents(parent) ELSE {})
                      \cup MkdirParents(o)]

\* the record of a finished invocation
LogEntry(b, status, value) ==
    [inv |-> b.inv, preset |-> b.preset, seed_count |-> b.seed_count,
     out_dir |-> b.out_dir, status |-> status, value |-> value,
     error |-> b.error, disk0 |-> b.disk0]

\* run_benchmark(preset, seed_count, out_dir) is called: the preset check
BenchInvoke ==
    /\ bench.pc \in {"idle", "returned", "raised"} /\ bench.inv < 2
    /\ \E preset \in Presets, n \in 0..MaxSeeds, od \in OutDirs :
         LET b == [bench EXCEPT !.inv = @ + 1, !.preset = preset,
                                !.seed_count = n, !.out_dir = od,
                                !.scenarios = << >>, !.idx = 1,
                                !.all_results = << >>, !.resolved = << >>,
                                !.error = NoError, !.disk0 = disk]
         IN bench' =
              IF PresetSupported(preset)
              THEN [b EXCEPT !.pc = BenchOrder[1]]
              ELSE LET e == [b EXCEPT !.error = UnsupportedPreset(preset)]
                   IN [e EXCEPT !.pc = "raised",
                                !.log = Append(@, LogEntry(e, "raised", << >>))]
    /\ results' = << >> /\ aggs' = << >> /\ files' = << >>
    /\ apc' = "off" /\ aerr' = ""
    /\ UNCHANGED <<runVars, disk, probe>>

\* scenarios = core_benchmark_scenarios(seed_count=seed_count)
BenchBuild ==
    /\ bench.pc = "build"
    /\ bench' = [bench EXCEPT
                   !.scenarios = core_benchmark_scenarios(bench.seed_count),
                   !.pc = StepAfter("build")]
    /\ UNCHANGED <<runVars, aggVars, disk, probe>>

\* "for scenario in scenarios": the runner of the scenario's engine is called
BenchDispatch ==
    /\ bench.pc = "simulate" /\ pc = "off"
    /\ bench.idx <= Len(bench.scenarios)
    /\ cfg' = bench.scenarios[bench.idx]
    /\ fn' = IF bench.scenarios[bench.idx].engine = "walker"
             THEN "walker" ELSE "optimizer"
    /\ pc' = "idle" /\ call' = 1 /\ rets' = << >>
    /\ UNCHANGED <<aggVars, envVars, out, si, mi, rng, draws, sims, frame>>

\* all_results.extend(...) with what the runner returned; an exception of
\* the runner leaves run_benchmark
BenchCollect ==
    /\ bench.pc = "simulate" /\ pc = "idle" /\ call = 2
    /\ bench' =
         IF rets[1].raised
         THEN LET e == [bench EXCEPT !.error = [type |-> rets[1].error,
                                               msg |-> << >>]]
              IN [e EXCEPT !.pc = "raised",
                           !.log = Append(@, LogEntry(e, "raised", << >>))]
         ELSE [bench EXCEPT
                 !.all_results = @ \o rets[1].value,
                 !.idx = @ + 1,
                 !.pc = IF bench.idx < Len(bench.scenarios)
                        THEN "simulate" ELSE StepAfter("simulate")]
    /\ pc' = "off"
    /\ UNCHANGED <<aggVars, disk, probe, cfg, fn, call, rets, out, si, mi,
                   rng, draws, sims, frame>>

\* aggs = aggregate_results(all_results)
BenchAggregate ==
    /\ bench.pc = "aggregate"
    /\ results' = bench.all_results
    /\ aggs' = aggregate_results(bench.all_results)
    /\ bench' = [bench EXCEPT !.pc = StepAfter("aggregate")]
    /\ UNCHANGED <<runVars, files, apc, aerr, disk, probe>>

\* resolved_out = ensure_artifact_dir(out_dir): the clock is read at some
\* tick not before the last one read
BenchEnsureDir ==
    /\ bench.pc = "ensure_dir"
    /\ \E t \in disk.now..MaxTime :
         LET r == ensure_artifact_dir(bench.out_dir, t, disk.dirs)
         IN /\ bench' = [bench EXCEPT !.resolved = r.out,
                                      !.pc = StepAfter("ensure_dir")]
            /\ disk' = [disk EXCEPT !.now = t, !.dirs = r.dirs]
    /\ UNCHANGED <<runVars, aggVars, probe>>

\* write_bundle(...) is entered
BenchWriteBundle ==
    /\ bench.pc = "bundle" /\ apc = "off"
    /\ apc' = "aggregated"
    /\ UNCHANGED <<runVars, envVars, results, aggs, files, aerr>>

\* return all_results, aggs, resolved_out (the log keeps the lengths of the
\* two lists); an exception of write_bundle leaves run_benchmark
BenchReturn ==
    /\ bench.pc = "bundle" /\ apc \in {"done", "raised"}
    /\ bench' =
         IF apc = "raised"
         THEN LET e == [bench EXCEPT !.error = [type |-> aerr, msg |-> << >>]]
              IN [e EXCEPT !.pc = "raised",
                           !.log = Append(@, LogEntry(e, "raised", << >>))]
         ELSE [bench EXCEPT
                 !.pc = "returned",
                 !.log = Append(@, LogEntry(bench, "returned",
                            <<Len(bench.all_results), Len(aggs), bench.resolved>>))]
    /\ apc' = "off"
    /\ UNCHANGED <<runVars, results, aggs, files, aerr, disk, probe>>

\* no invocation yet, an empty file system
InitBench ==
    /\ bench = [NoBench EXCEPT !.pc = "idle", !.out_dir = << >>,
                               !.resolved = << >>]
    /\ disk = [now |-> 0, dirs |-> {}, files |-> {}]
    /\ probe = NoProbe
    /\ results = << >> /\ aggs = << >> /\ files = << >>
    /\ apc = "off" /\ aerr = ""
    /\ cfg = ScenarioConfig("sc", 2, 0, 1, << >>, 40, "walker", "sphere", 24, 1, 100)
    /\ fn = "walker"
    /\ pc = "off" /\ call = 0 /\ rets = << >>
    /\ out = << >> /\ si = 1 /\ mi = 1
    /\ rng = 0 /\ draws = 0 /\ sims = << >> /\ frame = NoFrame

NextBench ==
    \/ BenchInvoke
    \/ BenchBuild
    \/ BenchDispatch
    \/ CallWalker
    \/ BeginWalkerRun
    \/ WalkerStep
    \/ WalkerFinish
    \/ CallOptimizer
    \/ BeginToyRun
    \/ ToyStep
    \/ BeginCmaRun
    \/ CmaWhile
    \/ CmaAskEval
    \/ CmaEndGeneration
    \/ OptimizerFinish
    \/ Return
    \/ BenchCollect
    \/ BenchAggregate
    \/ BenchEnsureDir
    \/ BenchWriteBundle
    \/ WriteResultsCsv
    \/ WriteSummaryMd
    \/ PlotScoreBars
    \/ PlotWinRate
    \/ BenchReturn

SpecBench == InitBench /\ [][NextBench]_vars

\* ------------------------------------------------------------------------
\* The runner called twice with one ScenarioConfig
\* ------------------------------------------------------------------------

Init ==
    /\ cfg \in WalkerConfigs \cup OptimizerConfigs \cup UnknownEngineConfigs
                \cup DegenerateConfigs
    /\ fn \in {"walker", "optimizer"}
    /\ pc = "idle" /\ call = 0 /\ rets = << >>
    /\ out = << >> /\ si = 1 /\ mi = 1
    /\ rng = 0 /\ draws = 0 /\ sims = << >> /\ frame = NoFrame
    /\ results = << >> /\ aggs = << >> /\ files = << >>
    /\ apc = "off" /\ aerr = ""
    /\ bench = NoBench /\ disk = NoDisk /\ probe = NoProbe

Next ==
    \/ CallWalker
    \/ BeginWalkerRun
    \/ WalkerStep
    \/ WalkerFinish
    \/ CallOptimizer
    \/ BeginToyRun
    \/ ToyStep
    \/ BeginCmaRun
    \/ CmaWhile
    \/ CmaAskEval
    \/ CmaEndGeneration
    \/ OptimizerFinish
    \/ Return

Spec == Init /\ [][Next]_vars

\* ------------------------------------------------------------------------
\* The runner called twice, the second time with another seed list
\* ------------------------------------------------------------------------

\* one configuration of each engine for every seed list
SeedConfigs ==
    {ScenarioConfig("sc", 2, 25, MaxSteps, sd, 40, "walker", "sphere", 24, 2, 100) :
        sd \in SeedLists}
    \cup {ScenarioConfig("sc", 2, 25, MaxEvals, sd, 40, en, "rastrigin", 2, 120, 100) :
             sd \in SeedLists, en \in {"toy_es", "cmaes_style"}}

\* between the two calls the caller replaces the seed list of the config
Reseed ==
    /\ pc = "idle" /\ call = 1
    /\ \E sd \in SeedLists : sd # cfg.seeds /\ cfg' = [cfg EXCEPT !.seeds = sd]
    /\ UNCHANGED <<aggVars, envVars, fn, pc, call, rets, out, si, mi, rng, draws,
                   sims, frame>>

InitSeeds ==
    /\ cfg \in SeedConfigs
    /\ fn = IF cfg.engine = "walker" THEN "walker" ELSE "optimizer"
    /\ pc = "idle" /\ call = 0 /\ rets = << >>
    /\ out = << >> /\ si = 1 /\ mi = 1
    /\ rng = 0 /\ draws = 0 /\ sims = << >> /\ frame = NoFrame
    /\ results = << >> /\ aggs = << >> /\ files = << >>
    /\ apc = "off" /\ aerr = ""
    /\ bench = NoBench /\ disk = NoDisk /\ probe = NoProbe

NextSeeds ==
    \/ CallWalker
    \/ BeginWalkerRun
    \/ WalkerStep
    \/ WalkerFinish
    \/ CallOptimizer
    \/ BeginToyRun
    \/ ToyStep
    \/ BeginCmaRun
    \/ CmaWhile
    \/ CmaAskEval
    \/ CmaEndGeneration
    \/ OptimizerFinish
    \/ Return
    \/ Reseed

SpecSeeds == InitSeeds /\ [][NextSeeds]_vars

\* ------------------------------------------------------------------------
\* Properties of the runner
\* ------------------------------------------------------------------------

\* the completed calls that returned a list
Returned == {c \in 1..Len(rets) : ~rets[c].raised}

\* (seed, method) in the order the runner is specified to execute them
ExpectedRuns(seeds) ==
    [k \in 1..(2 * Len(seeds)) |->
        <<seeds[(k + 1) \div 2], IF k % 2 = 1 THEN "vanilla" ELSE "phasewall">>]

\* the rows of one method, in list order
RowsOf(v, m) == SelectSeq(v, LAMBDA r : r.method = m)

\* C1: called twice with the same ScenarioConfig, the runner returns two
\* lists of the same length with the same score at every position (and a
\* call that raises, raises both times): nothing the first call leaves
\* behind reaches the second.
C1_Determinism ==
    call = 2 =>
        /\ rets[1].raised = rets[2].raised
        /\ Len(rets[1].value) = Len(rets[2].value)
        /\ \A k \in 1..Len(rets[1].value) :
              rets[1].value[k].score = rets[2].value[k].score

\* C1 happens: two completed calls of the CMA-style engine under noise,
\* each returning four results
C1_Witness ==
    /\ call = 2 /\ Returned = {1, 2}
    /\ cfg.engine = "cmaes_style" /\ cfg.noise_std > 0
    /\ Len(rets[2].value) = 4
    /\ rets[2].value[1].score # rets[2].value[3].score

\* C2: a call that returns has begun exactly one simulation per (seed,
\* method), seeds in list order and "vanilla" before "phasewall", and
\* returns exactly 2n results in that order, each carrying the config's name
\* and engine; so the vanilla and the phasewall rows have the same seeds.
C2_ShapeAndOrder ==
    \A c \in Returned :
        LET v == rets[c].value
            e == ExpectedRuns(cfg.seeds)
        IN /\ Len(v) = 2 * Len(cfg.seeds)
           /\ rets[c].sims = e
           /\ \A k \in 1..Len(v) :
                 /\ v[k].seed = e[k][1] /\ v[k].method = e[k][2]
                 /\ v[k].scenario = cfg.name /\ v[k].engine = cfg.engine
           /\ {v[k].seed : k \in {i \in 1..Len(v) : v[i].method = "vanilla"}}
                = {v[k].seed : k \in {i \in 1..Len(v) : v[i].method = "phasewall"}}

\* C2 happens: a call returned the four results of a two-seed list that is
\* not in ascending order
C2_Witness ==
    /\ 1 \in Returned
    /\ cfg.seeds = <<2, 1>>
    /\ Len(rets[1].value) = 4

\* C5: with noise_std = 0 the optimizer engines never enable the
\* perturbation: in every run the evaluated points are the selection points,
\* and for every seed the "phasewall" result has the score and the metrics
\* of the "vanilla" result, so the median phasewall score does not exceed
\* the median vanilla score.
C5_NoNoiseGating ==
    (cfg.noise_std = 0 /\ fn = "optimizer") =>
        /\ frame.kind = "toy_es" =>
              ~frame.phasewall_enabled /\ frame.x_eval = frame.x_tell
        /\ frame.kind = "cmaes_style" =>
              ~frame.phasewall_on /\ frame.x_eval = frame.x_tell
        /\ \A c \in Returned :
              LET v == rets[c].value
              IN /\ \A i \in 1..Len(cfg.seeds) :
                       /\ v[2 * i - 1].score = v[2 * i].score
                       /\ v[2 * i - 1].metrics = v[2 * i].metrics
                 /\ Len(v) > 0 =>
                       Median2([k \in 1..Len(RowsOf(v, "phasewall")) |->
                                  RowsOf(v, "phasewall")[k].score])
                         <= Median2([k \in 1..Len(RowsOf(v, "vanilla")) |->
                                       RowsOf(v, "vanilla")[k].score])

\* C5 happens: a noise-free toy-ES call returned, and its first sampled
\* population had a candidate outside the reference radius, which the
\* perturbation would have moved
C5_Witness ==
    /\ 1 \in Returned
    /\ cfg.noise_std = 0 /\ cfg.engine = "toy_es"
    /\ Len(rets[1].value) >= 2
    /\ rets[1].value[2].score < Inf
    /\ \E i \in 1..cfg.population_size :
          Norm(Rows(StdNormals(default_rng(cfg.seeds[1]),
                               cfg.population_size * cfg.dim),
                    cfg.population_size, cfg.dim)[i]) > ReferenceRadius(cfg.dim)

\* a + b and a <= b for fractions <<numerator, denominator>>
AddFrac(a, b) == <<a[1] * b[2] + b[1] * a[2], a[2] * b[2]>>

LeqFrac(a, b) == a[1] * b[2] <= b[1] * a[2]

RECURSIVE SumFrac(_)
SumFrac(s) == IF s = << >> THEN <<0, 1>> ELSE AddFrac(Head(s), SumFrac(Tail(s)))

\* the sum over the rows of method m of the escape_rate metric
EscapeSum(v, m) ==
    LET r == RowsOf(v, m)
    IN SumFrac(Vec([k \in 1..Len(r) |-> r[k].metrics.escape_rate]))

\* C6: for a walker scenario with noise_std > 0 and at least one seed, the
\* mean escape_rate of the "phasewall" results is at most the mean
\* escape_rate of the "vanilla" results (equal counts, so the sums compare).
C6_EscapeMonotone ==
    \A c \in Returned :
        (fn = "walker" /\ cfg.noise_std > 0 /\ Len(cfg.seeds) >= 1) =>
            LeqFrac(EscapeSum(rets[c].value, "phasewall"),
                    EscapeSum(rets[c].value, "vanilla"))

\* the config names an engine or an objective that does not exist
InvalidNames == cfg.engine \notin ENGINES \/ cfg.objective \notin OBJECTIVES

\* C10: given an unknown engine or objective name, the runner raises before
\* any simulation work: no random number is drawn, no simulation is begun,
\* and no call returns a list.
C10_FailFast ==
    InvalidNames =>
        /\ draws = 0
        /\ sims = << >>
        /\ Returned = {}

\* C15: the walker loop never runs more than steps_or_evals iterations, and
\* every completed iteration of an optimizer's main loop has advanced the
\* evaluation counter, which is what makes the loop reach its budget.
C15_LoopsAdvance ==
    /\ frame.kind = "walker" => frame.t <= cfg.steps_or_evals
    /\ frame.kind \in {"toy_es", "cmaes_style"} =>
          /\ frame.history_len <= frame.evals
          /\ frame.history_len <= cfg.steps_or_evals

\* C16: the RunResult of a (seed, method) pair is the same in every list
\* returned for the config, whatever the other seeds of the list are and
\* wherever the seed stands in it.
C16_SeedwiseIndependent ==
    \A a \in 1..Len(rets), b \in 1..Len(rets) :
        \A i \in 1..Len(rets[a].value), j \in 1..Len(rets[b].value) :
            (/\ rets[a].value[i].seed = rets[b].value[j].seed
             /\ rets[a].value[i].method = rets[b].value[j].method)
            => rets[a].value[i] = rets[b].value[j]

\* the two calls returned, the second for the seed list of the first in
\* reverse
C16_Witness ==
    /\ Len(rets) = 2 /\ ~rets[1].raised /\ ~rets[2].raised
    /\ Len(rets[1].value) = 4 /\ Len(rets[2].value) = 4
    /\ rets[1].value[1].seed = rets[2].value[3].seed
    /\ rets[1].value[3].seed = rets[2].value[1].seed
    /\ rets[1].value[1].seed # rets[1].value[3].seed
    /\ rets[1].value[1].score # rets[1].value[3].score

\* C20: in a step of the walker with phasewall enabled, every new position
\* is the position proposed by the step, pulled towards radius sigma by
\* apply_phase_wall_z with the scenario's phasewall_strength.
C20_ClampFollowsStrength ==
    [][(/\ pc = "sim" /\ frame.kind = "walker" /\ frame.phasewall_enabled
        /\ frame'.kind = "walker" /\ frame'.t = frame.t + 1)
       => LET n == cfg.n_agents
              noise == Rows(rng_normal(rng, 0, cfg.noise_std, n * cfg.dim),
                            n, cfg.dim)
          IN \A i \in 1..n :
                frame'.positions[i] =
                    apply_phase_wall_z(
                        WalkerProposal(frame.positions[i], noise[i], TRUE,
                                       cfg.phasewall_strength, cfg.sigma),
                        cfg.sigma, cfg.phasewall_strength)]_vars

\* ------------------------------------------------------------------------
\* Properties of the aggregator and the bundle
\* ------------------------------------------------------------------------

\* aggregate_results has returned
Aggregated == apc \in {"aggregated", "csv", "summary", "bars", "done", "raised"}

\* the (scenario, engine, method) keys of the input
KeysIn == {<<results[i].scenario, results[i].engine, results[i].method>> :
              i \in 1..Len(results)}

\* the input rows of a key, and of the vanilla key of the same pair
InputRows(key) == GroupRows(results, key[1], key[2], key[3])

VanillaRows(key) == GroupRows(results, key[1], key[2], "vanilla")

SeedsOf(rows) == {rows[k].seed : k \in 1..Len(rows)}

\* the aggregate rows emitted for a key
AggIndex(key) ==
    {i \in 1..Len(aggs) : <<aggs[i].scenario, aggs[i].engine, aggs[i].method>> = key}

\* the score of the row of a seed, in rows with one row per seed
ScoreAt(rows, seed) == rows[CHOOSE k \in 1..Len(rows) : rows[k].seed = seed].score

\* x is the number n/d
IsReal(x, n, d) == ~x.nan /\ x.num * d = n * x.den

\* C3: when the vanilla and phasewall rows of a pair have the same seeds (one
\* or more), the phasewall aggregate's win_rate is the number of seeds whose
\* phasewall score is strictly below the vanilla score of that seed, divided
\* by the number of seeds.
C3_WinRate ==
    Aggregated =>
        \A key \in KeysIn :
            LET p == InputRows(key)
                v == VanillaRows(key)
                wins == {s \in SeedsOf(p) : ScoreAt(p, s) < ScoreAt(v, s)}
            IN (key[3] = "phasewall" /\ SeedsOf(v) = SeedsOf(p)) =>
                   \A i \in AggIndex(key) :
                       IsReal(aggs[i].win_rate, Cardinality(wins),
                              Cardinality(SeedsOf(p)))

\* C4 as stated: with vanilla rows in the pair, ratio_vs_vanilla is NaN
\* exactly when the vanilla median is <= 0 or the row's median is < 0, and is
\* otherwise median(row) / median(vanilla).
C4_RatioAsStated ==
    Aggregated =>
        \A key \in KeysIn : \A i \in AggIndex(key) :
            LET m2 == Median2(ScoresOf(InputRows(key)))
                b2 == IF VanillaRows(key) = << >> THEN 0
                      ELSE Median2(ScoresOf(VanillaRows(key)))
            IN VanillaRows(key) # << >> =>
                   IF b2 <= 0 \/ m2 < 0
                   THEN aggs[i].ratio_vs_vanilla.nan
                   ELSE IsReal(aggs[i].ratio_vs_vanilla, m2, b2)

\* C4 amended: with vanilla rows in the pair, ratio_vs_vanilla is NaN exactly
\* when the vanilla median is <= 0 or the row's median is < 0, and is
\* otherwise median(row) / max(1e-12, median(vanilla)).
C4_RatioFloored ==
    Aggregated =>
        \A key \in KeysIn : \A i \in AggIndex(key) :
            LET m2 == Median2(ScoresOf(InputRows(key)))
                b2 == IF VanillaRows(key) = << >> THEN 0
                      ELSE Median2(ScoresOf(VanillaRows(key)))
            IN VanillaRows(key) # << >> =>
                   IF b2 <= 0 \/ m2 < 0
                   THEN aggs[i].ratio_vs_vanilla.nan
                   ELSE IsReal(aggs[i].ratio_vs_vanilla, m2,
                               IF b2 < 2 * RatioFloor THEN 2 * RatioFloor ELSE b2)

\* C4 happens: a phasewall row with a positive median was aggregated against
\* a vanilla median that is positive and below 1e-12
C4_Witness ==
    /\ Aggregated
    /\ \E key \in KeysIn :
          /\ key[3] = "phasewall"
          /\ VanillaRows(key) # << >>
          /\ Median2(ScoresOf(VanillaRows(key))) \in 1..(2 * RatioFloor - 1)
          /\ Median2(ScoresOf(InputRows(key))) > 0
          /\ \E i \in AggIndex(key) : ~aggs[i].ratio_vs_vanilla.nan

\* C7: every vanilla aggregate has win_rate 0.5; and every key of a pair
\* without vanilla rows still has its one aggregate row, with n and the
\* median, mean and confidence interval of its scores, and with
\* ratio_vs_vanilla and wilcoxon_p NaN.
C7_BaselineSentinels ==
    Aggregated =>
        /\ \A i \in 1..Len(aggs) :
              aggs[i].method = "vanilla" => IsReal(aggs[i].win_rate, 1, 2)
        /\ \A key \in KeysIn :
              VanillaRows(key) = << >> =>
                  /\ Cardinality(AggIndex(key)) = 1
                  /\ \A i \in AggIndex(key) :
                        LET sc == ScoresOf(InputRows(key))
                        IN /\ aggs[i].n = Len(sc)
                           /\ IsReal(aggs[i].median_score, Median2(sc), 2)
                           /\ IsReal(aggs[i].mean_score, SumSeq(sc), Len(sc))
                           /\ ~aggs[i].std_score.nan
                           /\ ~aggs[i].ci_low.nan /\ ~aggs[i].ci_high.nan
                           /\ ~RealLt(aggs[i].ci_high, aggs[i].ci_low)
                           /\ aggs[i].ratio_vs_vanilla.nan
                           /\ aggs[i].wilcoxon_p.nan

\* C7 happens: the aggregation covered a pair with phasewall rows and no
\* vanilla row next to a pair with vanilla rows
C7_Witness ==
    /\ Aggregated
    /\ \E key \in KeysIn :
          key[3] = "phasewall" /\ VanillaRows(key) = << >> /\ Len(InputRows(key)) >= 2
    /\ \E i \in 1..Len(aggs) : aggs[i].method = "vanilla"

\* the rows of a key whose seed has a vanilla row in the same pair
PairedRows(key) ==
    SelectSeq(InputRows(key), LAMBDA r : r.seed \in SeedsOf(VanillaRows(key)))

\* C8: a non-vanilla aggregate counts every row of its key in n, median,
\* mean and std, paired or not; its signed-rank test is given, for each row
\* whose seed has a vanilla row, the vanilla score and the row's score of
\* that seed; wilcoxon_p is NaN with fewer than 2 such pairs, and always NaN
\* for the vanilla aggregate.
C8_Pairing ==
    Aggregated =>
        \A key \in KeysIn : \A i \in AggIndex(key) :
            LET sc == ScoresOf(InputRows(key))
                pr == PairedRows(key)
                n == Len(sc)
                p == aggs[i].wilcoxon_p
            IN /\ aggs[i].n = n
               /\ IsReal(aggs[i].median_score, Median2(sc), 2)
               /\ IsReal(aggs[i].mean_score, SumSeq(sc), n)
               /\ IsReal(aggs[i].std_score,
                         ISqrt(RoundDiv((n * SumSeq([k \in 1..n |-> sc[k] * sc[k]])
                                           - SumSeq(sc) * SumSeq(sc)) * FP * FP,
                                        n * n)), FP)
               /\ Len(pr) < 2 => p.nan
               /\ key[3] = "vanilla" => p.nan
               /\ ~p.nan =>
                     /\ p.y = ScoresOf(pr)
                     /\ Len(p.x) = Len(pr)
                     /\ \A k \in 1..Len(pr) :
                           p.x[k] = ScoreAt(VanillaRows(key), pr[k].seed)

\* C8 happens: a phasewall aggregate over three rows, two of them paired with
\* a vanilla row and tested, one without a vanilla row of its seed
C8_Witness ==
    /\ Aggregated
    /\ \E key \in KeysIn : \E i \in AggIndex(key) :
          /\ key[3] = "phasewall"
          /\ Len(InputRows(key)) = 3
          /\ Len(PairedRows(key)) = 2
          /\ aggs[i].n = 3
          /\ ~aggs[i].wilcoxon_p.nan

\* the four artifacts of a bundle
Artifacts == <<"results.csv", "summary.md", "fig_score_bars.png", "fig_win_rate.png">>

\* C9: whatever the RunResult list, aggregate_results followed by
\* write_bundle does not raise, and when it has run to its end all four
\* artifacts are written.
C9_NeverCrashes ==
    /\ apc # "raised"
    /\ aerr = ""
    /\ apc = "done" => files = Artifacts


\* ------------------------------------------------------------------------
\* Properties of run_benchmark
\* ------------------------------------------------------------------------

\* the invocation in progress or last finished has left the file system as
\* it found it
DiskUntouched == disk.dirs = bench.disk0.dirs /\ disk.files = bench.disk0.files

\* C11: an invocation whose preset is not "core" ends by raising a
\* ValueError whose message contains the preset, with no scenario built, no
\* simulation begun and no directory or file created.
C11_UnsupportedPreset ==
    (bench.inv >= 1 /\ bench.preset # "core") =>
        /\ bench.pc = "raised"
        /\ bench.error.type = "ValueError"
        /\ \E k \in 1..Len(bench.error.msg) : bench.error.msg[k] = bench.preset
        /\ bench.scenarios = << >> /\ bench.all_results = << >>
        /\ pc = "off"
        /\ DiskUntouched

\* the second invocation was given an unsupported preset after a first one
\* that wrote its bundle
C11_Witness ==
    /\ bench.inv = 2 /\ bench.preset = "full" /\ bench.pc = "raised"
    /\ Len(bench.log) = 2 /\ bench.log[1].status = "returned"
    /\ disk.files # {}

\* every scenario has been simulated for every seed and method, and the
\* results have been aggregated
ComputeDone ==
    /\ bench.scenarios # << >>
    /\ bench.idx > Len(bench.scenarios)
    /\ Len(bench.all_results)
         = Len(bench.scenarios) * Len(METHODS) * bench.seed_count
    /\ results = bench.all_results
    /\ bench.seed_count > 0 => aggs # << >>

\* C12: within an invocation the file system is changed only after every
\* scenario has been simulated and the results aggregated; an invocation
\* that is still computing, or that ended by raising, has created no
\* directory and written no file.
C12_WriteAfterCompute ==
    bench.inv >= 1 =>
        /\ ~DiskUntouched => ComputeDone
        /\ bench.pc \in {"build", "simulate", "aggregate", "raised"} => DiskUntouched

\* the second invocation is writing its bundle, after simulating two seeds,
\* on a file system the first invocation wrote to
C12_Witness ==
    /\ bench.inv = 2 /\ bench.seed_count = 2 /\ bench.pc = "bundle"
    /\ Len(files) = 2
    /\ bench.disk0.files # {}
    /\ ~DiskUntouched

\* the last path component
PathName(path) == path[Len(path)]

\* C13: an invocation that returned after being given an out_dir named
\* "latest" wrote into a directory next to it that is not "latest", did not
\* exist before and held no artifact of an earlier invocation; one given any
\* other out_dir wrote into exactly that directory; the directory is the one
\* returned.
C13_FreshDirectory ==
    \A i \in 1..Len(bench.log) :
        LET e == bench.log[i]
        IN e.status = "returned" =>
             LET dir == e.value[3]
             IN IF PathName(e.out_dir) = "latest"
                THEN /\ PathName(dir) # "latest"
                     /\ SubSeq(dir, 1, Len(dir) - 1)
                          = SubSeq(e.out_dir, 1, Len(e.out_dir) - 1)
                     /\ dir \notin e.disk0.dirs
                     /\ \A f \in e.disk0.files : f.dir # dir
                ELSE dir = e.out_dir

\* C14: an invocation with preset "core" and seed_count >= 1 does not
\* raise, and when it has returned, the aggregate list returned is not empty
\* and the directory returned exists and holds the four artifacts, written
\* by this invocation.
C14_CoreCompletes ==
    (bench.inv >= 1 /\ bench.preset = "core" /\ bench.seed_count >= 1) =>
        /\ bench.pc # "raised"
        /\ bench.pc = "returned" =>
              LET v == bench.log[Len(bench.log)].value
              IN /\ v[2] > 0
                 /\ v[3] \in disk.dirs
                 /\ \A k \in 1..Len(Artifacts) :
                       [dir |-> v[3], name |-> Artifacts[k], by |-> bench.inv]
                           \in disk.files

\* run_benchmark("core", 2, ".../latest") has returned, as in
\* tests/test_benchmark_pipeline.py
C14_Witness ==
    /\ bench.pc = "returned" /\ bench.preset = "core" /\ bench.seed_count = 2
    /\ PathName(bench.out_dir) = "latest"
    /\ bench.log[Len(bench.log)].value[2] = 2 * Len(bench.scenarios)

\* ------------------------------------------------------------------------
\* Properties of apply_phase_wall_z and compute_curvature_sign
\* ------------------------------------------------------------------------

\* the call of the function named has returned
Applied(f) == probe.pc = "done" /\ probe.fn = f

\* C17: for a vector z whose norm exceeds r0, apply_phase_wall_z returns a
\* positive multiple of z: not the zero vector, and no coordinate of the
\* opposite sign or turned on where z has none.
C17_DirectionKept ==
    (Applied("apply_phase_wall_z") /\ Norm(probe.z) > probe.r0) =>
        /\ \E j \in 1..Len(probe.z) : probe.out[j] # 0
        /\ \A j \in 1..Len(probe.z) :
              /\ probe.z[j] > 0 => probe.out[j] >= 0
              /\ probe.z[j] < 0 => probe.out[j] <= 0
              /\ probe.z[j] = 0 => probe.out[j] = 0

\* C18: with a strength of 1.0 or more apply_phase_wall_z returns what it
\* returns for 1.0, and with a strength of 0 or less what it returns for 0,
\* which is z itself.
C18_StrengthSaturates ==
    Applied("apply_phase_wall_z") =>
        /\ probe.strength >= FP =>
              probe.out = apply_phase_wall_z(probe.z, probe.r0, FP)
        /\ probe.strength <= 0 =>
              /\ probe.out = apply_phase_wall_z(probe.z, probe.r0, 0)
              /\ probe.out = probe.z

\* a strength of 2.0 was applied to a vector outside the radius, which the
\* transform moved
C18_Witness ==
    /\ Applied("apply_phase_wall_z")
    /\ probe.strength = 2 * FP
    /\ Norm(probe.z) > probe.r0
    /\ probe.out # probe.z
    /\ \E j \in 1..Len(probe.z) : probe.out[j] # 0

\* C19 as stated: +1 for every r < sigma, 0 for r = sigma, -1 for every
\* r > sigma.
C19_SignAsStated ==
    Applied("compute_curvature_sign") =>
        \A k \in 1..Len(probe.r) :
            /\ probe.r[k] < probe.sigma => probe.out[k] = 1
            /\ probe.r[k] = probe.sigma => probe.out[k] = 0
            /\ probe.r[k] > probe.sigma => probe.out[k] = -1

\* C19, amended: +1 when sigma^2 - r^2 exceeds the tolerance 1e-10, -1 when
\* r^2 - sigma^2 exceeds it, and 0 otherwise, which includes r = sigma.
C19_SignWithTolerance ==
    Applied("compute_curvature_sign") =>
        \A k \in 1..Len(probe.r) :
            LET d == probe.sigma * probe.sigma - probe.r[k] * probe.r[k]
            IN /\ d > CurvatureTol => probe.out[k] = 1
               /\ d < -CurvatureTol => probe.out[k] = -1
               /\ (d <= CurvatureTol /\ d >= -CurvatureTol) => probe.out[k] = 0
               /\ probe.r[k] = probe.sigma => probe.out[k] = 0

\* an array with a radius below sigma and one above it, both by more than
\* the tolerance
C19_Witness ==
    /\ Applied("compute_curvature_sign")
    /\ probe.r[1] < probe.sigma /\ probe.out[1] = 1
    /\ probe.r[2] > probe.sigma /\ probe.out[2] = -1


\* ------------------------------------------------------------------------
\* Properties of phase_aware_noise
\* ------------------------------------------------------------------------

\* |p| times the outward radial component of v at position p
RadialPart(v, p) == v[1] * p[1] + v[2] * p[2]

\* |p| times the signed tangential component of v at position p
TangentialPart(v, p) == v[1] * p[2] - v[2] * p[1]

\* the call reshaped the noise of an agent outside r0 with a strength in (0, 1]
Reshaped ==
    /\ Applied("phase_aware_noise")
    /\ Norm(probe.p) > probe.r0
    /\ probe.strength > 0 /\ probe.strength <= FP

\* C21: for an agent outside r0 and a strength in (0, 1], the returned noise
\* has a tangential component no larger in magnitude than the original's and
\* an inward radial component at least as large as the original's
C21_InwardBoosted ==
    Reshaped =>
        /\ Abs(TangentialPart(probe.out, probe.p))
              <= Abs(TangentialPart(probe.z, probe.p))
        /\ -RadialPart(probe.out, probe.p) >= -RadialPart(probe.z, probe.p)


\* ------------------------------------------------------------------------
\* Properties of the optimizer engines
\* ------------------------------------------------------------------------

\* the step completes a generation of _run_toy_es
ToyGenerationDone ==
    /\ frame.kind = "toy_es" /\ frame'.kind = "toy_es"
    /\ frame'.evals > frame.evals

\* the step is one ask and evaluation of _run_cmaes_style
CmaAsked ==
    /\ frame.kind = "cmaes_style" /\ frame'.kind = "cmaes_style"
    /\ frame'.evals > frame.evals

\* the step is a tell() of _run_cmaes_style with a non-empty elite
CmaTold ==
    /\ frame.kind = "cmaes_style" /\ frame'.kind = "cmaes_style"
    /\ frame'.tells > frame.tells
    /\ cfg.population_size \div 2 > 0

\* the rows of points whose scores are the mu lowest, ties in index order
BestHalf(points, scores, mu) ==
    LET order == ArgSort(scores)
    IN Mat([k \in 1..mu |-> points[order[k]]])

\* mean + sigma * z for the population the toy-ES generator is about to draw
ToySelectionPoints ==
    LET pop == cfg.population_size
        dim == cfg.dim
        z   == Rows(StdNormals(rng, pop * dim), pop, dim)
    IN Mat([i \in 1..pop |->
              [j \in 1..dim |-> frame.mean[j] + MulFP(frame.sigma, z[i][j])]])

\* mean + sigma * (L @ z) for the offset the optimizer's generator is about to
\* draw
CmaSelectionPoint ==
    LET z == StdNormals(frame.opt_rng, cfg.dim)
    IN Vec([j \in 1..cfg.dim |->
              frame.mean[j]
                + MulFP(frame.sigma,
                        MulFP(SqrtFP(Clip(frame.diag_var[j], 0, 1000000 * FP)),
                              z[j]))])

\* mean distance of the elite rows from m, over sqrt(dim)
Spread(elite, m) ==
    LET dists == Vec([k \in 1..Len(elite) |->
                        Norm([j \in 1..cfg.dim |-> elite[k][j] - m[j]])])
    IN DivFP(RoundDiv(SumSeq(dists), Len(elite)), SqrtFP(cfg.dim * FP))

\* C22: in both optimizer engines the candidates are ranked by the score
\* observed at the evaluated point, and the elite that updates the mean and
\* the step size or variance is made of the un-perturbed points
\* mean + sigma * offset; with the perturbation off the evaluated point is
\* the selection point
C22_SelectionUnperturbed ==
    [][/\ ToyGenerationDone =>
            \A sel \in {ToySelectionPoints} :
            \A y \in {_evaluate_batch(frame'.x_eval, cfg.objective, cfg.noise_std,
                                       RngAdvance(rng, cfg.population_size * cfg.dim))} :
            \A elite \in {BestHalf(sel, y, cfg.population_size \div 2)} :
            \A m \in {MeanRows(elite)} :
               /\ frame'.x_tell = sel
               /\ frame'.mean = m
               /\ frame'.sigma = RoundDiv(85 * frame.sigma, 100)
                                   + RoundDiv(15 * Max2(SigmaFloor, Spread(elite, m)), 100)
               /\ ~frame.phasewall_enabled => frame'.x_eval = sel
       /\ CmaAsked =>
            \A sel \in {CmaSelectionPoint} :
            \A y \in {_evaluate_batch(<<frame'.x_eval>>, cfg.objective,
                                       cfg.noise_std, rng)[1]} :
               /\ frame'.solutions = Append(frame.solutions, <<sel, y>>)
               /\ ~frame.phasewall_on => frame'.x_eval = sel
       /\ CmaTold =>
            \A sols \in {frame.solutions} :
            \A elite \in {BestHalf([k \in 1..Len(sols) |-> sols[k][1]],
                                    [k \in 1..Len(sols) |-> sols[k][2]],
                                    cfg.population_size \div 2)} :
            \A m \in {MeanRows(elite)} :
            \A v \in {VarRows(elite)} :
               /\ frame'.mean =
                     Vec([j \in 1..cfg.dim |->
                            Clip(RoundDiv(80 * frame.mean[j], 100)
                                   + RoundDiv(20 * m[j], 100),
                                 -1000 * FP, 1000 * FP)])
               /\ frame'.diag_var =
                     Vec([j \in 1..cfg.dim |->
                            RoundDiv(90 * frame.diag_var[j], 100)
                              + RoundDiv(10 * Clip(v[j], 0, 1000000 * FP), 100)])
      ]_vars

\* C22 happens: a toy-ES generation with the perturbation on moved the mean to
\* a selection point whose evaluated point was a different, perturbed point
C22_Witness ==
    /\ frame.kind = "toy_es" /\ frame.phasewall_enabled /\ frame.evals > 0
    /\ cfg.population_size \div 2 = 1
    /\ \E i \in 1..cfg.population_size :
          /\ frame.mean = frame.x_tell[i]
          /\ frame.x_eval[i] # frame.x_tell[i]
          /\ \A k \in 1..cfg.population_size : frame.mean # frame.x_eval[k]


\* ceil(a / b) for a >= 0, b > 0
CeilDiv(a, b) == (a + b - 1) \div b

\* C23: _run_toy_es evaluates whole generations and stops at the first
\* generation boundary where the evaluation count has reached eval_budget:
\* for population_size >= 1 the reported eval_count is
\* population_size * ceil(eval_budget / population_size), lies in
\* [eval_budget, eval_budget + population_size), and the history has
\* eval_count / population_size entries
C23_ToyBudget ==
    (cfg.engine = "toy_es" /\ cfg.population_size >= 1) =>
        LET pop    == cfg.population_size
            budget == cfg.steps_or_evals
            Whole(m) ==
                /\ m.evals = pop * CeilDiv(budget, pop)
                /\ budget <= m.evals /\ m.evals < budget + pop
                /\ m.history_len * pop = m.evals
        IN /\ frame.kind = "toy_es" =>
                 /\ frame.evals = pop * frame.history_len
                 /\ frame.evals < budget + pop
           /\ \A k \in 1..Len(out) : Whole(out[k].metrics)
           /\ \A c \in Returned :
                 \A k \in 1..Len(rets[c].value) : Whole(rets[c].value[k].metrics)

\* C23 happens: a toy-ES call returned rows whose budget is not a multiple of
\* the population size, so the last generation went past the budget
C23_Witness ==
    /\ cfg.engine = "toy_es" /\ cfg.population_size >= 2
    /\ cfg.steps_or_evals > cfg.population_size
    /\ cfg.steps_or_evals % cfg.population_size # 0
    /\ 1 \in Returned /\ Len(rets[1].value) >= 2
    /\ rets[1].value[1].metrics.evals > cfg.steps_or_evals
    /\ rets[1].value[1].metrics.history_len = 2


\* C24: in _run_cmaes_style every ask is followed by exactly one
\* evaluation, the run ends with eval_count equal to eval_budget and never
\* goes above it, tell() receives only complete populations of
\* population_size pairs, once per completed generation and before the next
\* generation's first ask, and a final generation cut short by the budget is
\* evaluated but not passed to tell()
C24_AskEvaluateTell ==
    /\ frame.kind = "cmaes_style" =>
          LET pop == cfg.population_size
              n   == Len(frame.solutions)
          IN /\ frame.evals <= cfg.steps_or_evals
             /\ n <= pop
             /\ frame.loc \in {"for", "after"} =>
                   /\ n = frame.asked
                   /\ frame.evals = frame.tells * pop + n
             /\ frame.loc = "after" => frame.evals = cfg.steps_or_evals
             /\ frame.loc = "while" =>
                   /\ frame.evals = frame.tells * pop + (IF n < pop THEN n ELSE 0)
                   /\ frame.history_len = frame.tells + (IF 0 < n /\ n < pop THEN 1 ELSE 0)
                   /\ (0 < n /\ n < pop) => frame.evals = cfg.steps_or_evals
    /\ (cfg.engine = "cmaes_style" /\ cfg.population_size >= 1) =>
          \A c \in Returned :
             \A k \in 1..Len(rets[c].value) :
                LET m == rets[c].value[k].metrics
                IN /\ m.evals = cfg.steps_or_evals
                   /\ m.history_len = CeilDiv(cfg.steps_or_evals, cfg.population_size)

\* C24 happens: the budget ran out inside the second generation, which was
\* evaluated and left the loop without a second tell()
C24_Witness ==
    /\ frame.kind = "cmaes_style" /\ frame.loc = "while"
    /\ frame.evals = cfg.steps_or_evals
    /\ frame.tells = 1 /\ frame.history_len = 2
    /\ Len(frame.solutions) >= 1
    /\ Len(frame.solutions) < cfg.population_size


\* ------------------------------------------------------------------------
\* Properties of bootstrap_ci
\* ------------------------------------------------------------------------

\* a <= b for two floats that are not nan
RealLeq(a, b) == ~a.nan /\ ~b.nan /\ ~RealLt(b, a)

WalkerStepped ==
    /\ frame.kind = "walker" /\ frame'.kind = "walker"
    /\ frame'.t = frame.t + 1

\* the step ends a walker simulation and appends its row
WalkerFinished == frame.kind = "walker" /\ Len(out') = Len(out) + 1

\* C26: in every step an agent is counted as an inside-observation iff its
\* radius before the step is <= sigma and as an escape iff in addition its
\* radius after the step is > sigma; so 0 <= escapes <= inside_count, the
\* reported escape_rate = escapes / max(1, inside_count) lies in [0, 1], and
\* it is 0 when no agent was observed inside
C26_EscapeAccounting ==
    [][/\ WalkerStepped =>
            \A prev \in {frame.positions} :
            \A pos \in {frame'.positions} :
            \A agents \in {1..cfg.n_agents} :
               /\ frame'.inside_count - frame.inside_count =
                     Cardinality({i \in agents : Norm(prev[i]) <= cfg.sigma})
               /\ frame'.escapes - frame.escapes =
                     Cardinality({i \in agents : /\ Norm(prev[i]) <= cfg.sigma
                                                  /\ Norm(pos[i]) > cfg.sigma})
               /\ 0 <= frame'.escapes
               /\ frame'.escapes <= frame'.inside_count
       /\ WalkerFinished =>
            \A rate \in {out'[Len(out')].metrics.escape_rate} :
               /\ rate = <<frame.escapes, Max2(1, frame.inside_count)>>
               /\ 0 <= rate[1] /\ rate[1] <= rate[2] /\ rate[2] >= 1
               /\ frame.inside_count = 0 => rate[1] = 0
      ]_vars

\* C26 happens: agents were observed inside, and some of them escaped
C26_Witness ==
    /\ frame.kind = "walker"
    /\ frame.escapes >= 1
    /\ frame.inside_count > frame.escapes


\* C27: with the perturbation enabled and sigma > 0, after every step every
\* agent's radius is <= sigma, so the escapes counter stays 0, the reported
\* escape_rate is 0, and for steps >= 1 the final inside_fraction is 1 and the
\* score is <= sigma
C27_Contained ==
    /\ (frame.kind = "walker" /\ frame.phasewall_enabled /\ cfg.sigma > 0) =>
          /\ frame.t >= 1 =>
                \A i \in 1..cfg.n_agents : Norm(frame.positions[i]) <= cfg.sigma
          /\ frame.escapes = 0
    /\ (fn = "walker" /\ cfg.sigma > 0 /\ cfg.steps_or_evals >= 1) =>
          \A k \in 1..Len(out) :
             out[k].method = "phasewall" =>
                /\ out[k].metrics.escape_rate[1] = 0
                /\ out[k].metrics.inside_fraction[1] = out[k].metrics.inside_fraction[2]
                /\ out[k].score <= cfg.sigma


\* ------------------------------------------------------------------------
\* Properties of the boundary transform
\* ------------------------------------------------------------------------

\* C28: for r0 > 0 and a vector z with |z| > r0, the result of
\* apply_phase_wall_z has norm r0 + (1 - s)(|z| - r0), s the strength clamped
\* to [0, 1]: it is at least r0 and at most |z|, equal to r0 at s = 1 and to
\* |z| at s = 0, and does not increase with the strength
C28_NormBounds ==
    (Applied("apply_phase_wall_z") /\ probe.r0 > 0 /\ Norm(probe.z) > probe.r0) =>
        \A n \in {Norm(probe.z)} :
        \A m \in {Norm(probe.out)} :
        \A s \in {Clip(probe.strength, 0, FP)} :
           /\ m = probe.r0 + MulFP(FP - s, n - probe.r0)
           /\ probe.r0 <= m /\ m <= n
           /\ s = FP => m = probe.r0
           /\ s = 0 => m = n
           /\ \A st \in PhaseWallStrengths :
                 st >= probe.strength =>
                    Norm(apply_phase_wall_z(probe.z, probe.r0, st)) <= m


Stream(seed, k) == RngAdvance(default_rng(seed), k)

\* C30: the phase-wall transforms draw no random numbers, so at every point
\* of a run the generators are where the seed and the progress of the run
\* put them, whatever the method: the walker's initial positions and
\* per-step noise, the optimizers' offsets and observation noise are the
\* same raw draws in the "vanilla" and the "phasewall" run of a seed; the
\* CMA-style engine draws offsets from a generator seeded with seed and
\* observation noise from one seeded with seed + 100000
C30_CommonRandomNumbers ==
    /\ frame.kind = "walker" =>
          \A n \in {cfg.n_agents} :
             /\ rng = Stream(cfg.seeds[si], n * cfg.dim + n + frame.t * n * cfg.dim)
             /\ frame.t = 0 =>
                   frame.positions =
                     _init_positions(n, cfg.dim, default_rng(cfg.seeds[si]))
    /\ frame.kind = "toy_es" =>
          rng = Stream(cfg.seeds[si],
                       frame.history_len
                         * (cfg.population_size * cfg.dim
                              + EvalDraws(cfg.noise_std, cfg.population_size)))
    /\ frame.kind = "cmaes_style" =>
          /\ frame.opt_rng = Stream(cfg.seeds[si], frame.evals * cfg.dim)
          /\ rng = Stream(cfg.seeds[si] + 100000,
                           frame.evals * EvalDraws(cfg.noise_std, 1))

\* C30 happens: the "phasewall" run of a seed is under way with reshaped
\* noise or offsets, after the "vanilla" run of the same seed has finished
C30_Witness ==
    /\ frame.kind \in {"walker", "toy_es", "cmaes_style"}
    /\ METHODS[mi] = "phasewall" /\ cfg.noise_std > 0
    /\ Len(out) >= 1
    /\ out[Len(out)].method = "vanilla" /\ out[Len(out)].seed = cfg.seeds[si]
    /\ frame.kind = "walker" => frame.t >= 2
    /\ frame.kind # "walker" => frame.evals >= 2 /\ frame.x_eval # frame.x_tell

=============================================================================
